---- MODULE Spec2Model ----
(***************************************************************************)
(* Model of the basis projection / padding core of neuralxc:               *)
(*   neuralxc/pyscf/pyscf.py        BasisPadder, PySCFProjector            *)
(*   neuralxc/projector/projector_gaussian.py   GaussianProjector          *)
(* and of the iteration loop of neuralxc/drivers.py workflow_driver.        *)
(*                                                                         *)
(* Arrays are sequences (1-based in the model); the flat atomic-orbital    *)
(* positions stored in indexing_r, the atom indices and the slices keep    *)
(* the 0-based values of the Python code.  Coefficients are integers: the  *)
(* padding code only selects and scatters values, and the contractions     *)
(* only add and multiply them.  A Python exception raised by a call is     *)
(* the value of the field err of its result.                               *)
(***************************************************************************)
EXTENDS Integers, Sequences, FiniteSets, TLC

VARIABLES
    mol,            \* BasisPadder.mol: the atoms of the (auxiliary) molecule
    sym_cnt,        \* BasisPadder.sym_cnt
    max_l,          \* BasisPadder.max_l
    max_n,          \* BasisPadder.max_n
    indexing_l,     \* BasisPadder.indexing_l
    indexing_r,     \* BasisPadder.indexing_r
    spec_agnostic,  \* PySCFProjector.spec_agnostic
    delta,          \* PySCFProjector.delta
    spec_partition, \* PySCFProjector.spec_partition (unset until get_basis_rep)
    op,             \* the operation called last
    arg,            \* its argument, as the caller passed it
    argAfter,       \* the caller's argument object when the call has returned
    ret,            \* what the call returned, or the exception it raised
    prev,           \* the call before, kept when this call was fed from it
    basis,          \* GaussianProjector.basis: the shells of each species
    all_angs,       \* GaussianProjector.all_angs: the angular-grid cache
    UseMemory,      \* neuralxc.config.UseMemory
    pc,             \* workflow_driver: the statement it is at
    args,           \* workflow_driver: args.maxit, args.tol, args.data
    iteration,      \* workflow_driver: iteration
    cwd,            \* the working directory, as the path from the starting directory
    statistics_sc,  \* workflow_driver: statistics_sc
    old_statistics, \* workflow_driver: old_statistics
    statistics_fit, \* workflow_driver: statistics_fit
    merged_new      \* the iterations k whose directory it{k} holds merged_new

wvars == <<pc, args, iteration, cwd, statistics_sc, old_statistics, statistics_fit, merged_new>>

vars == <<mol, sym_cnt, max_l, max_n, indexing_l, indexing_r, spec_agnostic,
          delta, spec_partition, op, arg, argAfter, ret, prev, basis, all_angs,
          UseMemory, wvars>>

bpvars == <<mol, sym_cnt, max_l, max_n, indexing_l, indexing_r>>

(***************************************************************************)
(* Bounds of the model.                                                    *)
(***************************************************************************)
MaxAtoms == 2       \* atoms in a molecule
MaxVal == 1         \* offsets and strides of the coefficient values tried
NGrid == 4          \* points of the real-space grid
MaxProj == 3        \* atoms handed to one projection call
MaxSite == 1        \* the first atom of a projection sits at a coordinate 0 .. MaxSite
MaxCached == 1      \* projections are called while all_angs holds at most so many keys
MaxRadius == 4      \* g and radials are evaluated at the radii 0 .. MaxRadius
MaxPrim == 2        \* primitives of a shell handed to g
MaxAlpha == 2       \* the first exponent of a shell handed to g is 1 .. MaxAlpha
MaxCut == 3         \* a single cutoff r_o handed to g is 1 .. MaxCut
ManyAtoms == 11     \* atoms of a long molecule: the numeral of the last ends with that of an earlier one
MaxIt == 3          \* args.maxit of workflow_driver is 0 .. MaxIt
MaxMae == 2         \* a mean absolute error reported by eval_driver or fit_driver is 0 .. MaxMae
MaxTol == 1         \* args.tol of workflow_driver is 0 .. MaxTol

(***************************************************************************)
(* Small helpers on sequences.                                             *)
(***************************************************************************)
RECURSIVE SumSeq(_)
SumSeq(s) == IF s = <<>> THEN 0 ELSE Head(s) + SumSeq(Tail(s))

RECURSIVE Flatten(_)
Flatten(ss) == IF ss = <<>> THEN <<>> ELSE Head(ss) \o Flatten(Tail(ss))

Zeros(n) == [i \in 1..n |-> 0]

Min(S) == CHOOSE x \in S : \A y \in S : x <= y

Max(S) == CHOOSE x \in S : \A y \in S : x >= y

\* positions of the TRUE entries of a boolean mask, ascending (np boolean index)
RECURSIVE TruePos(_, _)
TruePos(mask, i) ==
    IF i > Len(mask) THEN <<>>
    ELSE (IF mask[i] THEN <<i>> ELSE <<>>) \o TruePos(mask, i + 1)

(***************************************************************************)
(* The molecule.  An atom is its pure symbol and, for l = 0, 1, ..., the   *)
(* number of radial functions it carries with that angular momentum        *)
(* (shells[l+1]).  The quantum-chemistry engine numbers the functions of   *)
(* angular momentum l on an atom n = l+1, l+2, ... and lists, per atom,    *)
(* l ascending, n ascending and the 2l+1 harmonics of one (n,l) together.  *)
(***************************************************************************)
Species == {"O", "H"}

Atoms ==
    { [sym |-> "O", shells |-> <<1, 1>>], [sym |-> "O", shells |-> <<0, 0, 1>>],
      [sym |-> "H", shells |-> <<1, 1>>], [sym |-> "H", shells |-> <<2>>] }

\* the molecules tried: one atom, or two atoms taking turns
Molecules ==
    UNION { {[i \in 1..n |-> IF i % 2 = 1 THEN a1 ELSE a2] : a1 \in Atoms, a2 \in Atoms} :
                n \in 1..MaxAtoms }

\* mol.ao_labels(fmt=False) for one atom: (atom index, symbol, n, l, m)
AtomLabels(m, ia) ==
    LET sh == m[ia + 1].shells
        OfL(l) == Flatten([c \in 1..sh[l + 1] |->
                      [k \in 1..(2 * l + 1) |->
                          [ia |-> ia, sym |-> m[ia + 1].sym, n |-> l + c, l |-> l, m |-> k - 1]]])
    IN  Flatten([l1 \in 1..Len(sh) |-> OfL(l1 - 1)])

ao_labels(m) == Flatten([a \in 1..Len(m) |-> AtomLabels(m, a - 1)])

\* mol.aoslice_by_atom(): slice[-2], slice[-1] of atom ia
aoslice_by_atom(m, ia) ==
    LET start == SumSeq([a \in 1..ia |-> Len(AtomLabels(m, a - 1))])
    IN  <<start, start + Len(AtomLabels(m, ia))>>

atom_pure_symbol(m, ia) == m[ia + 1].sym

(***************************************************************************)
(* Python dictionaries keep the order in which their keys were inserted:   *)
(* a dictionary is its key sequence and its values.                        *)
(***************************************************************************)
RECURSIVE FirstSeen(_, _)
FirstSeen(s, seen) ==
    IF s = <<>> THEN <<>>
    ELSE IF Head(s) \in seen THEN FirstSeen(Tail(s), seen)
         ELSE <<Head(s)>> \o FirstSeen(Tail(s), seen \cup {Head(s)})

KeySet(d) == {d.keys[i] : i \in 1..Len(d.keys)}

Dict(keys, F(_)) == [keys |-> keys, val |-> [s \in {keys[i] : i \in 1..Len(keys)} |-> F(s)]]

(***************************************************************************)
(* BasisPadder.__init__                                                    *)
(***************************************************************************)
\* sym_idx[sym]: the atoms of a species, in molecule order
RECURSIVE SymIdxFrom(_, _, _)
SymIdxFrom(m, sym, ia) ==
    IF ia >= Len(m) THEN <<>>
    ELSE (IF atom_pure_symbol(m, ia) = sym THEN <<ia>> ELSE <<>>) \o SymIdxFrom(m, sym, ia + 1)

\* faulty variant of InitSymIdx: the atoms of a species last to first
InitSymIdx_Reversed(m, sym) ==
    [k \in 1..Len(SymIdxFrom(m, sym, 0)) |->
        SymIdxFrom(m, sym, 0)[Len(SymIdxFrom(m, sym, 0)) + 1 - k]]

InitSymIdx(m, sym) == SymIdxFrom(m, sym, 0)

InitSymCnt(m) ==
    Dict(FirstSeen([a \in 1..Len(m) |-> atom_pure_symbol(m, a - 1)], {}),
         LAMBDA sym : Len(InitSymIdx(m, sym)))

LabelSyms(labels) == FirstSeen([i \in 1..Len(labels) |-> labels[i].sym], {})

InitMaxN(labels) ==
    Dict(LabelSyms(labels),
         LAMBDA sym : Max({0} \cup {labels[i].n : i \in {j \in 1..Len(labels) : labels[j].sym = sym}}))

\* faulty variant of InitMaxL: the largest l of the whole molecule for every species
InitMaxL_Whole(labels) ==
    Dict(LabelSyms(labels), LAMBDA sym : Max({0} \cup {labels[i].l : i \in 1..Len(labels)}))

InitMaxL(labels) ==
    Dict(LabelSyms(labels),
         LAMBDA sym : Max({0} \cup {labels[i].l : i \in {j \in 1..Len(labels) : labels[j].sym = sym}}))

\* the decimal numeral of ia ends with the decimal numeral of idx
RECURSIVE Pow10Above(_, _)
Pow10Above(idx, p) == IF idx < p THEN p ELSE Pow10Above(idx, p * 10)

EndsWithNumeral(ia, idx) == ia % Pow10Above(idx, 10) = idx

\* '{} {} {}{}'.format(idx, sym, n, l_dict_inv[l]) in lab, for a formatted
\* label lab = '%d %s %s%-4s' % (ia, sym, nl, m): the text is found exactly
\* when the atom numeral of the label ends with idx and the symbol, n and
\* the letter of l are those of the label.
LabelContains(idx, sym, n, l, lab) ==
    /\ EndsWithNumeral(lab.ia, idx)
    /\ lab.sym = sym
    /\ lab.n = n
    /\ lab.l = l

MatchSet(labels, idx, sym, n, l) ==
    {i \in 1..Len(labels) : LabelContains(idx, sym, n, l, labels[i])}

\* one (n, l) step of the loop of lines 284-292: the part of indexing_left
BlockLeft(labels, idx, sym, n, l) ==
    [k \in 1..(2 * l + 1) |-> MatchSet(labels, idx, sym, n, l) # {}]

\* faulty variant of BlockRight: counts from the last matching label, not the first
BlockRight_Last(labels, idx, sym, n, l) ==
    IF MatchSet(labels, idx, sym, n, l) # {}
    THEN LET sidx == Max(MatchSet(labels, idx, sym, n, l)) - 1
         IN  [k \in 1..(2 * l + 1) |-> sidx + k - 1]
    ELSE <<>>

\* ... and the part of indexing_right (np.where(...)[0][0] is 0-based)
BlockRight(labels, idx, sym, n, l) ==
    IF MatchSet(labels, idx, sym, n, l) # {}
    THEN LET sidx == Min(MatchSet(labels, idx, sym, n, l)) - 1
         IN  [k \in 1..(2 * l + 1) |-> sidx + k - 1]
    ELSE <<>>

\* for n in range(1, max_n+1): for l in range(max_l+1)
AtomLeft(labels, idx, sym, mn, ml) ==
    Flatten([n \in 1..mn |-> Flatten([l1 \in 1..(ml + 1) |-> BlockLeft(labels, idx, sym, n, l1 - 1)])])

AtomRight(labels, idx, sym, mn, ml) ==
    Flatten([n \in 1..mn |-> Flatten([l1 \in 1..(ml + 1) |-> BlockRight(labels, idx, sym, n, l1 - 1)])])

InitIndexingLeft(m) ==
    LET labels == ao_labels(m)
        mn == InitMaxN(labels)
        ml == InitMaxL(labels)
    IN  Dict(mn.keys, LAMBDA sym :
            [k \in 1..Len(InitSymIdx(m, sym)) |->
                AtomLeft(labels, InitSymIdx(m, sym)[k], sym, mn.val[sym], ml.val[sym])])

InitIndexingRight(m) ==
    LET labels == ao_labels(m)
        mn == InitMaxN(labels)
        ml == InitMaxL(labels)
    IN  Dict(mn.keys, LAMBDA sym :
            [k \in 1..Len(InitSymIdx(m, sym)) |->
                AtomRight(labels, InitSymIdx(m, sym)[k], sym, mn.val[sym], ml.val[sym])])

(***************************************************************************)
(* numpy indexing, as far as pad_basis and unpad_basis use it.  A result   *)
(* is [err, val]: err is "none" or the name of the exception raised.       *)
(***************************************************************************)
Ok(v) == [err |-> "none", val |-> v]

Raise(e) == [err |-> e, val |-> <<>>]

\* a[rel] for an integer index array rel (0-based, negative counts from the end)
FancyGet(a, rel) ==
    IF \E j \in 1..Len(rel) : rel[j] >= Len(a) \/ rel[j] < 0 - Len(a)
    THEN Raise("IndexError")
    ELSE Ok([j \in 1..Len(rel) |-> a[(IF rel[j] < 0 THEN rel[j] + Len(a) ELSE rel[j]) + 1]])

\* a[rel] = vals for an integer index array rel; the last write to a place stays
FancySet(a, rel, vals) ==
    IF \E j \in 1..Len(rel) : rel[j] >= Len(a) \/ rel[j] < 0 - Len(a)
    THEN Raise("IndexError")
    ELSE IF Len(vals) # Len(rel) /\ Len(vals) # 1
    THEN Raise("ValueError")
    ELSE LET at(j) == (IF rel[j] < 0 THEN rel[j] + Len(a) ELSE rel[j]) + 1
             v(j) == IF Len(vals) = 1 THEN vals[1] ELSE vals[j]
         IN  Ok([i \in 1..Len(a) |->
                   IF \E j \in 1..Len(rel) : at(j) = i
                   THEN v(Max({j \in 1..Len(rel) : at(j) = i}))
                   ELSE a[i]])

\* faulty variant of MaskGet: reads the slot after each slot of the mask
MaskGet_Shifted(a, k, mask) ==
    IF k >= Len(a) THEN Raise("IndexError")
    ELSE IF Len(mask) # Len(a[k + 1]) THEN Raise("IndexError")
    ELSE LET tp == TruePos(mask, 1)
         IN  Ok([j \in 1..Len(tp) |-> a[k + 1][(tp[j] % Len(mask)) + 1]])

\* a[k, mask] for a 2-D array a, a row k (0-based) and a boolean mask
MaskGet(a, k, mask) ==
    IF k >= Len(a) THEN Raise("IndexError")
    ELSE IF Len(mask) # Len(a[k + 1]) THEN Raise("IndexError")
    ELSE LET tp == TruePos(mask, 1)
         IN  Ok([j \in 1..Len(tp) |-> a[k + 1][tp[j]]])

\* faulty variant of MaskSet: writes the values to the first slots of the row
MaskSet_Packed(a, k, mask, vals) ==
    IF k >= Len(a) THEN Raise("IndexError")
    ELSE IF Len(mask) # Len(a[k + 1]) THEN Raise("IndexError")
    ELSE LET tp == TruePos(mask, 1)
         IN  IF Len(vals) # Len(tp) /\ Len(vals) # 1 THEN Raise("ValueError")
             ELSE Ok([a EXCEPT ![k + 1] =
                        [i \in 1..Len(mask) |->
                            IF i <= Len(tp)
                            THEN (IF Len(vals) = 1 THEN vals[1] ELSE vals[i])
                            ELSE a[k + 1][i]]])

\* a[k, mask] = vals
MaskSet(a, k, mask, vals) ==
    IF k >= Len(a) THEN Raise("IndexError")
    ELSE IF Len(mask) # Len(a[k + 1]) THEN Raise("IndexError")
    ELSE LET tp == TruePos(mask, 1)
         IN  IF Len(vals) # Len(tp) /\ Len(vals) # 1 THEN Raise("ValueError")
             ELSE Ok([a EXCEPT ![k + 1] =
                        [i \in 1..Len(mask) |->
                            IF mask[i]
                            THEN (IF Len(vals) = 1 THEN vals[1]
                                  ELSE vals[CHOOSE j \in 1..Len(tp) : tp[j] = i])
                            ELSE a[k + 1][i]]])

\* a[lo:hi] of a sequence (0-based bounds, clipped to the length)
Slice(a, lo, hi) ==
    LET l0 == IF lo > Len(a) THEN Len(a) ELSE lo
        h0 == IF hi > Len(a) THEN Len(a) ELSE hi
    IN  IF h0 <= l0 THEN <<>> ELSE [i \in 1..(h0 - l0) |-> a[l0 + i]]

\* a with a[lo:hi] replaced by seg (a write through the view a[lo:hi])
SetSlice(a, lo, seg) == [i \in 1..Len(a) |-> IF i > lo /\ i <= lo + Len(seg) THEN seg[i - lo] ELSE a[i]]

\* a numpy array of 2 dimensions (rows of slots) or of 3 (a batch of such):
\* its number of dimensions and its matrices, one matrix when ndim is 2
Arr2(rows) == [ndim |-> 2, a |-> <<rows>>]

Arr3(batch) == [ndim |-> 3, a |-> batch]

Rows(arr) == arr.a[1]

(***************************************************************************)
(* BasisPadder.pad_basis.  bp is the padder: its fields as a record.       *)
(***************************************************************************)
PaddedWidth(bp, sym) == bp.max_n.val[sym] * (bp.max_l.val[sym] + 1) * (bp.max_l.val[sym] + 1)

\* faulty variant of PadZeros: the arrays start filled with ones
PadZeros_Ones(bp) ==
    Dict(bp.indexing_l.keys,
         LAMBDA sym : Arr2([k \in 1..bp.sym_cnt.val[sym] |-> [j \in 1..PaddedWidth(bp, sym) |-> 1]]))

\* lines 314-319: the zero arrays and the counters
PadZeros(bp) ==
    Dict(bp.indexing_l.keys,
         LAMBDA sym : Arr2([k \in 1..bp.sym_cnt.val[sym] |-> Zeros(PaddedWidth(bp, sym))]))

\* faulty variant of PadValues: indexes the atom's slice without taking off its start
PadValues_NoOffset(bp, coeff, aidx, sym, k) ==
    LET sl == aoslice_by_atom(bp.mol, aidx)
        right == bp.indexing_r.val[sym][k + 1]
    IN  FancyGet(Slice(coeff, sl[1], sl[2]), right)

\* lines 323-324: the right-hand side for atom aidx, row k of its species
PadValues(bp, coeff, aidx, sym, k) ==
    LET sl == aoslice_by_atom(bp.mol, aidx)
        right == bp.indexing_r.val[sym][k + 1]
    IN  FancyGet(Slice(coeff, sl[1], sl[2]), [j \in 1..Len(right) |-> right[j] - sl[1]])

\* lines 321-325: the loop over the atoms
RECURSIVE PadLoop(_, _, _, _, _)
PadLoop(bp, coeff, aidx, out, cnt) ==
    IF aidx >= Len(bp.mol) THEN Ok(out)
    ELSE LET sym == atom_pure_symbol(bp.mol, aidx)
         IN  IF sym \notin KeySet(out) THEN Raise("KeyError")
             ELSE LET k == cnt[sym]
                  IN  IF k >= Len(bp.indexing_l.val[sym]) THEN Raise("IndexError")
                      ELSE LET rhs == PadValues(bp, coeff, aidx, sym, k)
                           IN  IF rhs.err # "none" THEN rhs
                               ELSE LET w == MaskSet(Rows(out.val[sym]), k, bp.indexing_l.val[sym][k + 1], rhs.val)
                                    IN  IF w.err # "none" THEN w
                                        ELSE PadLoop(bp, coeff, aidx + 1,
                                                     [out EXCEPT !.val[sym] = Arr2(w.val)],
                                                     [cnt EXCEPT ![sym] = k + 1])

pad_basis(bp, coeff) ==
    PadLoop(bp, coeff, 0, PadZeros(bp), [sym \in KeySet(bp.indexing_l) |-> 0])

(***************************************************************************)
(* BasisPadder.unpad_basis.  coeff maps a species to an array              *)
(* [ndim, a]: a holds rows of slots (ndim 2) or a batch of such (ndim 3).  *)
(***************************************************************************)
\* line 335-336
UnpadInput(coeff, sym) ==
    IF sym \notin KeySet(coeff) THEN Raise("KeyError")
    ELSE IF coeff.val[sym].ndim = 3 /\ Len(coeff.val[sym].a) = 0 THEN Raise("IndexError")
    ELSE Ok(Rows(coeff.val[sym]))

RECURSIVE UnpadLoop(_, _, _, _, _)
UnpadLoop(bp, coeff, aidx, out, cnt) ==
    IF aidx >= Len(bp.mol) THEN Ok(out)
    ELSE LET sym == atom_pure_symbol(bp.mol, aidx)
             sl == aoslice_by_atom(bp.mol, aidx)
             cin == UnpadInput(coeff, sym)
         IN  IF cin.err # "none" THEN cin
             ELSE IF sym \notin DOMAIN cnt THEN Raise("KeyError")
             ELSE LET k == cnt[sym]
                  IN  IF k >= Len(bp.indexing_l.val[sym]) THEN Raise("IndexError")
                      ELSE LET right == bp.indexing_r.val[sym][k + 1]
                               rhs == MaskGet(cin.val, k, bp.indexing_l.val[sym][k + 1])
                           IN  IF rhs.err # "none" THEN rhs
                               ELSE LET w == FancySet(Slice(out, sl[1], sl[2]),
                                                      [j \in 1..Len(right) |-> right[j] - sl[1]],
                                                      rhs.val)
                                    IN  IF w.err # "none" THEN w
                                        ELSE UnpadLoop(bp, coeff, aidx + 1,
                                                       SetSlice(out, sl[1], w.val),
                                                       [cnt EXCEPT ![sym] = k + 1])

unpad_basis(bp, coeff) ==
    UnpadLoop(bp, coeff, 0, Zeros(Len(ao_labels(bp.mol))), [sym \in KeySet(bp.indexing_l) |-> 0])

\* BasisPadder.get_basis_json
get_basis_json(bp) ==
    LET base == [sym \in KeySet(bp.sym_cnt) |-> [n |-> bp.max_n.val[sym], l |-> bp.max_l.val[sym] + 1]]
    IN  IF "O" \in KeySet(bp.sym_cnt)
        THEN [sym \in KeySet(bp.sym_cnt) \cup {"X"} |-> IF sym = "X" THEN base["O"] ELSE base[sym]]
        ELSE base

\* the padder built for a molecule (state after __init__, lines 294-298)
BasisPadder(m) ==
    [mol |-> m,
     sym_cnt |-> InitSymCnt(m),
     max_l |-> InitMaxL(ao_labels(m)),
     max_n |-> InitMaxN(ao_labels(m)),
     indexing_l |-> InitIndexingLeft(m),
     indexing_r |-> InitIndexingRight(m)]

(***************************************************************************)
(* PySCFProjector.  The three-centre integrals eri3c[i][j][k] and the      *)
(* initial-guess density matrix dm_init come from the integral library;    *)
(* the model fixes one integer tensor and one matrix.  Nao is the number   *)
(* of orbitals of the primary basis, the last axis of eri3c runs over the  *)
(* labels of the auxiliary molecule.                                       *)
(***************************************************************************)
Nao == 2

eri3c(m) ==
    [i \in 1..Nao |-> [j \in 1..Nao |-> [k \in 1..Len(ao_labels(m)) |-> 1 + ((i * j + k) % 3)]]]

dm_init == [i \in 1..Nao |-> [j \in 1..Nao |-> IF i = j THEN 1 ELSE 0]]

\* get_coeff: np.einsum('ijk, ij -> k', eri3c, dm)
get_coeff(dm, e3) ==
    [k \in 1..Len(e3[1][1]) |->
        SumSeq([i \in 1..Len(e3) |-> SumSeq([j \in 1..Len(e3[i]) |-> e3[i][j][k] * dm[i][j]])])]

\* np.einsum('ijk, k', eri3c, dEdC)
ContractV(e3, flat) ==
    [i \in 1..Len(e3) |-> [j \in 1..Len(e3[i]) |->
        SumSeq([k \in 1..Len(flat) |-> e3[i][j][k] * flat[k]])]]

\* lines 222-224
BasisRepCoeff(m, dlt, dm) ==
    get_coeff(IF dlt THEN [i \in 1..Nao |-> [j \in 1..Nao |-> dm[i][j] - dm_init[i][j]]] ELSE dm,
              eri3c(m))

\* line 228
PartitionOf(coeff) ==
    [set |-> TRUE, keys |-> coeff.keys, val |-> [sym \in KeySet(coeff) |-> Len(Rows(coeff.val[sym]))]]

NoPartition == [set |-> FALSE, keys |-> <<>>, val |-> <<>>]

\* lines 229-230: np.concatenate(..., axis=0) under the key 'X'
ConcatAgnostic(coeff) ==
    LET rows == Flatten([i \in 1..Len(coeff.keys) |-> Rows(coeff.val[coeff.keys[i]])])
    IN  IF \E r1, r2 \in 1..Len(rows) : Len(rows[r1]) # Len(rows[r2])
        THEN Raise("ValueError")
        ELSE Ok(Dict(<<"X">>, LAMBDA sym : Arr2(rows)))

\* PySCFProjector.get_basis_rep: the value returned
get_basis_rep(bp, agn, dlt, dm) ==
    LET coeff == pad_basis(bp, BasisRepCoeff(bp.mol, dlt, dm))
    IN  IF coeff.err # "none" \/ ~agn THEN coeff ELSE ConcatAgnostic(coeff.val)

\* ... and spec_partition when it returns or raises
PartitionAfterBasisRep(bp, agn, dlt, dm, part) ==
    LET coeff == pad_basis(bp, BasisRepCoeff(bp.mol, dlt, dm))
    IN  IF coeff.err = "none" /\ agn THEN PartitionOf(coeff.val) ELSE part

\* x[:, lo:hi] of an array of 2 or 3 dimensions
SliceAxis1(x, lo, hi) ==
    IF x.ndim = 3
    THEN Arr3([b \in 1..Len(x.a) |-> Slice(x.a[b], lo, hi)])
    ELSE Arr2([i \in 1..Len(Rows(x)) |-> Slice(Rows(x)[i], lo, hi)])

\* dict[key] = v: a new key goes last
DictSet(d, key, v) ==
    [keys |-> IF key \in KeySet(d) THEN d.keys ELSE Append(d.keys, key),
     val |-> [s \in KeySet(d) \cup {key} |-> IF s = key THEN v ELSE d.val[s]]]

\* dict.pop(key)
DictPop(d, key) ==
    [keys |-> SelectSeq(d.keys, LAMBDA s : s # key),
     val |-> [s \in KeySet(d) \ {key} |-> d.val[s]]]

\* lines 236-239: the loop over spec_partition
RECURSIVE SplitLoop(_, _, _, _)
SplitLoop(dEdC, part, i, running_idx) ==
    IF i > Len(part.keys) THEN dEdC
    ELSE LET sym == part.keys[i]
         IN  SplitLoop(DictSet(dEdC, sym, SliceAxis1(dEdC.val["X"], running_idx, running_idx + part.val[sym])),
                       part, i + 1, running_idx + part.val[sym])

\* lines 235-241: the caller's mapping when get_V is through with it
SplitAgnostic(dEdC, agn, part) ==
    IF ~agn THEN Ok(dEdC)
    ELSE IF ~part.set THEN Raise("AttributeError")
    ELSE IF "X" \notin KeySet(dEdC) THEN Raise("KeyError")
    ELSE Ok(DictPop(SplitLoop(dEdC, part, 1, 0), "X"))

\* faulty variant of get_V: takes the partition from the padder when no
\* get_basis_rep has recorded one
get_V_OwnPartition(bp, agn, part, dEdC) ==
    LET own == [set |-> TRUE, keys |-> bp.sym_cnt.keys, val |-> bp.sym_cnt.val]
        split == SplitAgnostic(dEdC, agn, IF part.set THEN part ELSE own)
    IN  IF split.err # "none" THEN split
        ELSE LET flat == unpad_basis(bp, split.val)
             IN  IF flat.err # "none" THEN flat ELSE Ok(ContractV(eri3c(bp.mol), flat.val))

\* PySCFProjector.get_V: the value returned
get_V(bp, agn, part, dEdC) ==
    LET split == SplitAgnostic(dEdC, agn, part)
    IN  IF split.err # "none" THEN split
        ELSE LET flat == unpad_basis(bp, split.val)
             IN  IF flat.err # "none" THEN flat ELSE Ok(ContractV(eri3c(bp.mol), flat.val))

\* ... and the mapping the caller passed, after the call
ArgAfterGetV(agn, part, dEdC) ==
    LET split == SplitAgnostic(dEdC, agn, part)
    IN  IF split.err # "none" THEN dEdC ELSE split.val

(***************************************************************************)
(* GaussianProjector.  The grid is a row of NGrid points at the integer    *)
(* coordinates 0 .. NGrid-1 and an atom sits at <<x, 0, 0>>, so that the   *)
(* distance of a point to an atom is an integer.  A cutoff r_o is held in   *)
(* hundredths of that unit, rounded down, which keeps every comparison of  *)
(* a cutoff with a distance.  The transcendental factors of the radial     *)
(* function are integer stand-ins with the same structure (see g).         *)
(***************************************************************************)
GridPoints == 1..NGrid

Coord(p) == p - 1

Dist(p, pos) == IF Coord(p) >= pos[1] THEN Coord(p) - pos[1] ELSE pos[1] - Coord(p)

Direction(p, pos) == IF Coord(p) > pos[1] THEN 1 ELSE IF Coord(p) < pos[1] THEN 0 - 1 ELSE 0

\* sigma = basis_instructions[species].get('sigma', 2.0): the default
Sigma == 2

\* a cutoff is a whole number of hundredths
Scale == 100

\* the whole part of the square root of q >= 1, by Newton steps down from x,
\* which is no smaller than the root
RECURSIVE RootFrom(_, _)
RootFrom(x, q) ==
    LET y == (x + q \div x) \div 2
    IN  IF y >= x THEN x ELSE RootFrom(y, q)

\* r_o = alpha**(-1/2)*sigma*(1+l/5) of parse_basis, in hundredths rounded down
CutoffOf(alpha, l) ==
    LET top == (Scale * Sigma * (5 + l)) \div 5
    IN  RootFrom(top, (top * top) \div alpha)

\* the primitives of the c-th shell of angular momentum l (mol.bas_exp,
\* bas_ctr_coeff) in the basis file read: the first s shell is a contraction
\* of two primitives and the further s shells have one primitive each; every
\* shell of a higher l is a contraction of two
ShellAlpha(l, c) == IF l > 0 THEN <<c, c + 1>> ELSE IF c = 1 THEN <<1, 2>> ELSE <<c + 1>>

ShellCoeff(l, c) == IF l > 0 \/ c = 1 THEN <<1, 2>> ELSE <<1>>

\* parse_basis: the shells of a species grouped by l, in the order of first appearance
parse_basis(shells) ==
    LET ls == SelectSeq([l1 \in 1..Len(shells) |-> l1 - 1], LAMBDA l : shells[l + 1] > 0)
    IN  [g \in 1..Len(ls) |->
            [l |-> ls[g],
             alpha |-> [c \in 1..shells[ls[g] + 1] |-> ShellAlpha(ls[g], c)],
             r_o |-> [c \in 1..shells[ls[g] + 1] |->
                        [i \in 1..Len(ShellAlpha(ls[g], c)) |-> CutoffOf(ShellAlpha(ls[g], c)[i], ls[g])]],
             coeff |-> [c \in 1..shells[ls[g] + 1] |-> ShellCoeff(ls[g], c)]]]

SeqMax(s) == Max({s[i] : i \in 1..Len(s)})

RECURSIVE Power(_, _)
Power(b, e) == IF e = 0 THEN 1 ELSE b * Power(b, e - 1)

\* stands for (2*a)**(l/2+3/4)*np.sqrt(2)/np.sqrt(GAMMA[l])
NormOf(a, l) == 2 * a + l + 1

\* stands for np.exp(-a*r**2)
ExpOf(a, r) == IF a * r * r >= 4 THEN 1 ELSE Power(2, 4 - a * r * r)

\* stands for 1-(.5*(1-np.cos(np.pi*r/np.max(r_o))))**8: zero at r = r_o only
EnvelopeOf(r, ro) ==
    LET d == ro - Scale * r
    IN  IF d = 0 THEN 0 ELSE 1 + (d * d) \div (Scale * Scale)

\* GaussianProjector.g at one radius
RECURSIVE SumNorm(_, _, _)
SumNorm(alpha, coeff, l) ==
    IF alpha = <<>> \/ coeff = <<>> THEN 0
    ELSE NormOf(Head(alpha), l) + SumNorm(Tail(alpha), Tail(coeff), l)

RECURSIVE SumPrim(_, _, _)
SumPrim(alpha, coeff, r) ==
    IF alpha = <<>> \/ coeff = <<>> THEN 0
    ELSE ExpOf(Head(alpha), r) * Head(coeff) + SumPrim(Tail(alpha), Tail(coeff), r)

\* faulty variant of g: leaves out line 144, the values beyond the cutoff stay
g_NoClamp(r, r_o, alpha, l, coeff) ==
    SumPrim(alpha, coeff, r) * (Power(r, l) * EnvelopeOf(r, SeqMax(r_o)) * SumNorm(alpha, coeff, l))

g(r, r_o, alpha, l, coeff) ==
    IF Scale * r > SeqMax(r_o) THEN 0
    ELSE SumPrim(alpha, coeff, r) * (Power(r, l) * EnvelopeOf(r, SeqMax(r_o)) * SumNorm(alpha, coeff, l))

\* GaussianProjector.radials for a list of one group: one function per shell
radials(r, b) == [ib \in 1..Len(b.alpha) |-> g(r, b.r_o[ib], b.alpha[ib], b.l, b.coeff[ib])]

\* the length of the table GAMMA (line 19): g has a normalisation for l below it
GammaLen == 7

\* GaussianProjector.g as a call: np.max of an empty r_o raises (line 135), a
\* primitive of an l outside GAMMA raises (line 140)
g_call(r, r_o, alpha, l, coeff) ==
    IF r_o = <<>> THEN Raise("ValueError")
    ELSE IF l >= GammaLen /\ alpha # <<>> /\ coeff # <<>> THEN Raise("IndexError")
    ELSE Ok(g(r, r_o, alpha, l, coeff))

\* GaussianProjector.radials as a call: a list of groups gives a list of lists
\* (lines 154-159); a dict reaches line 161, which reads the unbound local b
radials_call(r, rb) ==
    IF rb.kind = "list"
    THEN Ok([gi \in 1..Len(rb.groups) |-> radials(r, rb.groups[gi])])
    ELSE Raise("UnboundLocalError")

\* angulars_real(l, theta, phi): the 2l+1 harmonics in the direction of a point
angulars_real(l, d) == [m \in 1..(2 * l + 1) |-> IF l = 0 THEN 1 ELSE m * Power(d, l)]

\* box_around(pos, r_o_max): a block of the mesh around the atom, in scan order.
\* project indexes rho with the mesh index arrays of the box (line 100) and cuts
\* the box to the cutoff itself (line 110): the box is the mesh points up to the
\* next whole grid step at or beyond r_o_max on either side, both ends included
box_around(pos, r_o_max) ==
    SelectSeq([p \in 1..NGrid |-> p],
              LAMBDA p : Dist(p, pos) <= (r_o_max + Scale - 1) \div Scale)

\* V_cell: the volume weight of each grid point (the grid_weights handed in)
V_cell == [p \in 1..NGrid |-> 1 + (p % 2)]

\* np.max of a list of arrays: the largest entry; ValueError for an empty
\* list, for rows of no entry and for rows of different lengths (no array of
\* numbers can be made of them)
np_max(rows) ==
    LET lens == {Len(rows[c]) : c \in 1..Len(rows)}
    IN  IF Cardinality(lens) # 1 \/ lens = {0} THEN Raise("ValueError")
        ELSE Ok(Max({SeqMax(rows[c]) : c \in 1..Len(rows)}))

\* np.max(basis['r_o']) of one group (line 109, and within line 98)
GroupCutoff(b) == np_max(b.r_o)

\* line 98: the largest cutoff of the atom, over all its groups
AtomCutoff(bi) ==
    IF bi = <<>> \/ \E gi \in 1..Len(bi) : GroupCutoff(bi[gi]).err # "none" THEN Raise("ValueError")
    ELSE Ok(Max({GroupCutoff(bi[gi]).val : gi \in 1..Len(bi)}))

\* lines 110-112: the points of the box that one group keeps
GroupWindow(pos, b, box) ==
    SelectSeq(box, LAMBDA p : Scale * Dist(p, pos) <= GroupCutoff(b).val)

\* faulty variant of GroupCoeff: flattens the coefficients harmonic index major
GroupCoeff_HarmonicMajor(rho, pos, b, box) ==
    LET win == GroupWindow(pos, b, box)
        c(n, m) == SumSeq([i \in 1..Len(win) |->
                      rho[win[i]] * angulars_real(b.l, Direction(win[i], pos))[m]
                                  * (radials(Dist(win[i], pos), b)[n] * V_cell[win[i]])])
    IN  IF GroupCutoff(b).err # "none" THEN GroupCutoff(b)
        ELSE Ok(Flatten([m \in 1..(2 * b.l + 1) |-> [n \in 1..Len(b.alpha) |-> c(n, m)]]))

\* lines 107-124: the coefficients of one group, radial index major
GroupCoeff(rho, pos, b, box) ==
    LET win == GroupWindow(pos, b, box)
        c(n, m) == SumSeq([i \in 1..Len(win) |->
                      rho[win[i]] * angulars_real(b.l, Direction(win[i], pos))[m]
                                  * (radials(Dist(win[i], pos), b)[n] * V_cell[win[i]])])
    IN  IF GroupCutoff(b).err # "none" THEN GroupCutoff(b)
        ELSE Ok(Flatten([n \in 1..Len(b.alpha) |-> [m \in 1..(2 * b.l + 1) |-> c(n, m)]]))

\* the molecule of lines 127-128: one atom 'O' carrying the shells of the species
ProjectMol(shells) == << [sym |-> "O", shells |-> shells] >>

\* lines 96-124: the coefficient list of one atom, group after group
ProjectCoeff(rho, pos, shells) ==
    LET bi == parse_basis(shells)
        cut == AtomCutoff(bi)
        box == box_around(pos, cut.val)
    IN  IF cut.err # "none" THEN cut
        ELSE Ok(Flatten([gi \in 1..Len(bi) |-> GroupCoeff(rho, pos, bi[gi], box).val]))

\* lines 127-131: the coefficient list padded to the row of one atom
PadRow(shells, coeff) ==
    LET padded == pad_basis(BasisPadder(ProjectMol(shells)), coeff)
    IN  IF padded.err # "none" THEN padded ELSE Ok(Rows(padded.val.val["O"]))

\* faulty variant of project: refuses an atom that no grid point is in reach of
project_NeedsPoints(rho, pos, shells) ==
    LET coeff == ProjectCoeff(rho, pos, shells)
    IN  IF coeff.err # "none" THEN coeff
        ELSE IF box_around(pos, AtomCutoff(parse_basis(shells)).val) = <<>> THEN Raise("ValueError")
        ELSE PadRow(shells, coeff.val)

\* GaussianProjector.project: the row of one atom, shaped [1, width].  The
\* parameter angs of the code is never read, so it is no parameter here.
project(rho, pos, shells) ==
    LET coeff == ProjectCoeff(rho, pos, shells)
    IN  IF coeff.err # "none" THEN coeff ELSE PadRow(shells, coeff.val)

\* the decimal digits of a number, as '{}'.format writes them
RECURSIVE Numeral(_)
Numeral(n) == IF n < 10 THEN <<n>> ELSE Numeral(n \div 10) \o <<n % 10>>

\* line 56: the cache key of an atom, the species and the three coordinates
\* written one after the other with nothing between them
CacheKey(spec, pos) == <<spec>> \o Numeral(pos[1]) \o Numeral(pos[2]) \o Numeral(pos[3])

\* lines 52-62: the loop over zip(positions, species); rows[i] is what project
\* returns for the i-th pair, rep collects the rows
RECURSIVE GaussLoop(_, _, _, _, _, _, _, _)
GaussLoop(gb, mem, rows, positions, species, i, rep, cache) ==
    IF i > Len(positions) \/ i > Len(species) THEN [err |-> "none", val |-> rep, cache |-> cache]
    ELSE LET spec == species[i]
             rep1 == IF spec \in KeySet(rep) THEN rep ELSE DictSet(rep, spec, <<>>)
         IN  IF spec \notin DOMAIN gb THEN [err |-> "KeyError", val |-> <<>>, cache |-> cache]
             ELSE IF rows[i].err # "none" THEN [err |-> rows[i].err, val |-> <<>>, cache |-> cache]
             ELSE GaussLoop(gb, mem, rows, positions, species, i + 1,
                            DictSet(rep1, spec, Append(rep1.val[spec], rows[i].val)),
                            IF mem
                            THEN [k \in DOMAIN cache \cup {CacheKey(spec, positions[i])} |-> "None"]
                            ELSE cache)

\* faulty variant of Projections: the atoms are projected last to first
Projections_Reversed(gb, rho, positions, species) ==
    LET n == IF Len(positions) < Len(species) THEN Len(positions) ELSE Len(species)
    IN  [i \in 1..n |->
            IF species[i] \in DOMAIN gb
            THEN project(rho, positions[n + 1 - i], gb[species[i]])
            ELSE Raise("KeyError")]

\* line 59 for every pair of zip(positions, species) with a configured species
Projections(gb, rho, positions, species) ==
    [i \in 1..(IF Len(positions) < Len(species) THEN Len(positions) ELSE Len(species)) |->
        IF species[i] \in DOMAIN gb THEN project(rho, positions[i], gb[species[i]]) ELSE Raise("KeyError")]

\* get_basis_rep leaving out every atom whose key all_angs already holds
GaussRun_Stale(gb, mem, cache, rho, positions, species) ==
    LET n == IF Len(positions) < Len(species) THEN Len(positions) ELSE Len(species)
        fresh == SelectSeq([i \in 1..n |-> i],
                           LAMBDA i : CacheKey(species[i], positions[i]) \notin DOMAIN cache)
        pos == [k \in 1..Len(fresh) |-> positions[fresh[k]]]
        spc == [k \in 1..Len(fresh) |-> species[fresh[k]]]
        run == GaussLoop(gb, mem, Projections(gb, rho, pos, spc), pos, spc, 1,
                         [keys |-> <<>>, val |-> <<>>], cache)
    IN  IF run.err # "none" THEN run
        ELSE [run EXCEPT !.val = Dict(run.val.keys, LAMBDA spec : Arr2(Flatten(run.val.val[spec])))]

\* GaussianProjector.get_basis_rep: what it returns or raises (err, val) and
\* all_angs afterwards (cache); lines 64-65 are np.concatenate(..., axis=0)
GaussRun(gb, mem, cache, rho, positions, species) ==
    LET run == GaussLoop(gb, mem, Projections(gb, rho, positions, species), positions, species, 1,
                         [keys |-> <<>>, val |-> <<>>], cache)
    IN  IF run.err # "none" THEN run
        ELSE [run EXCEPT !.val = Dict(run.val.keys, LAMBDA spec : Arr2(Flatten(run.val.val[spec])))]

(***************************************************************************)
(* The inputs tried.                                                       *)
(***************************************************************************)
Values == 0..MaxVal

\* an input is constant or a ramp
Strides == {0, 1}

\* what an input holds in the slots that no orbital populates
Junk == {0, MaxVal + 4}

\* flat coefficient vectors of length n: constant ones and ramps
CoeffVectors(n) == {[i \in 1..n |-> off + stride * i] : off \in Values, stride \in Strides}

KeyIndex(keys, sym) == CHOOSE i \in 1..Len(keys) : keys[i] = sym

\* a padded input: a ramp on the populated slots, junk on the others
PaddedFill(bp, off, stride, junk, nd) ==
    Dict(bp.indexing_l.keys, LAMBDA sym :
        LET W == PaddedWidth(bp, sym)
            rows == [k \in 1..bp.sym_cnt.val[sym] |-> [j \in 1..W |->
                        IF bp.indexing_l.val[sym][k][j]
                        THEN off + stride * (j + W * (k - 1) + 10 * KeyIndex(bp.indexing_l.keys, sym))
                        ELSE junk]]
        IN  IF nd = 3 THEN Arr3(<<rows>>) ELSE Arr2(rows))

PaddedInputs(bp) ==
    {PaddedFill(bp, off, stride, junk, nd) :
        off \in Values, stride \in Strides, junk \in Junk, nd \in {2, 3}}

\* the same under the single key 'X' (all species have one width here)
AgnosticFill(bp, off, stride, junk, nd) ==
    LET w == PaddedFill(bp, off, stride, junk, 2)
        rows == Flatten([i \in 1..Len(w.keys) |-> Rows(w.val[w.keys[i]])])
    IN  Dict(<<"X">>, LAMBDA sym : IF nd = 3 THEN Arr3(<<rows>>) ELSE Arr2(rows))

AgnosticInputs(bp) ==
    {AgnosticFill(bp, off, stride, junk, nd) :
        off \in Values, stride \in Strides, junk \in Junk, nd \in {2, 3}}

DensityMatrices ==
    {[i \in 1..Nao |-> [j \in 1..Nao |-> off + stride * (i + j)]] : off \in Values, stride \in Strides}

\* the input w with other values in the unpopulated slots, as 2 or 3 dimensions
Refill(bp, w, junk, nd) ==
    Dict(bp.indexing_l.keys, LAMBDA sym :
        LET rows == [k \in 1..Len(Rows(w.val[sym])) |-> [j \in 1..Len(Rows(w.val[sym])[k]) |->
                        IF bp.indexing_l.val[sym][k][j] THEN Rows(w.val[sym])[k][j] ELSE junk]]
        IN  IF nd = 3 THEN Arr3(<<rows>>) ELSE Arr2(rows))

\* two padded inputs that hold the same values on every populated slot
AgreeOnPopulated(bp, w1, w2) ==
    \A sym \in KeySet(bp.indexing_l) :
        \A k \in 1..Len(bp.indexing_l.val[sym]) :
            \A j \in 1..Len(bp.indexing_l.val[sym][k]) :
                bp.indexing_l.val[sym][k][j] => Rows(w1.val[sym])[k][j] = Rows(w2.val[sym])[k][j]

Uniform(m) == \A a1, a2 \in 1..Len(m) : m[a1].shells = m[a2].shells

\* densities on the grid, atom positions and species lists of a Gaussian call
Densities == {[p \in 1..NGrid |-> 1], [p \in 1..NGrid |-> p]}

\* a step along x that takes an atom out of reach of every grid point
FarStep == NGrid + 4

\* atoms in a row along x: on neighbouring sites from a first site on, or from
\* site 0 on all on one site or each out of reach of the one before
PositionLists ==
    UNION { {[i \in 1..n |-> <<start + (i - 1), 0, 0>>] : start \in 0..MaxSite}
            \cup {[i \in 1..n |-> <<step * (i - 1), 0, 0>>] : step \in {0, FarStep}} :
                n \in 0..MaxProj }

\* species lists: one species throughout, or two species taking turns
SpeciesLists ==
    UNION { {[i \in 1..n |-> IF i % 2 = 1 THEN s1 ELSE s2] : s1 \in Species, s2 \in Species} :
                n \in 0..MaxProj }

\* the third basis has two s shells, of two primitives and of one
BasisChoices ==
    { [sym \in {"O", "H"} |-> IF sym = "O" THEN <<1, 1>> ELSE <<1>>],
      [sym \in {"O"} |-> <<1, 0, 2>>],
      [sym \in {"O"} |-> <<2>>] }

(***************************************************************************)
(* The state machine.  Spec: a PySCFProjector with its BasisPadder.        *)
(* GSpec: a GaussianProjector.                                             *)
(***************************************************************************)
BP == [mol |-> mol, sym_cnt |-> sym_cnt, max_l |-> max_l, max_n |-> max_n,
       indexing_l |-> indexing_l, indexing_r |-> indexing_r]

NoCall == [op |-> "none", arg |-> <<>>, ret |-> <<>>]

ThisCall == [op |-> op, arg |-> arg, ret |-> ret]

NoResult == [err |-> "none", val |-> <<>>]

NoStatistics == [mae |-> 0]

\* no workflow_driver is running
NoWorkflow ==
    /\ pc = "none" /\ args = <<>> /\ iteration = 0 /\ cwd = <<>>
    /\ statistics_sc = NoStatistics /\ old_statistics = NoStatistics
    /\ statistics_fit = NoStatistics /\ merged_new = {}

\* PySCFProjector.__init__ / initialize with BasisPadder.__init__
Init ==
    /\ mol \in Molecules
    /\ spec_agnostic \in BOOLEAN
    /\ spec_agnostic => Uniform(mol)
    /\ delta \in BOOLEAN
    /\ sym_cnt = BasisPadder(mol).sym_cnt
    /\ max_l = BasisPadder(mol).max_l
    /\ max_n = BasisPadder(mol).max_n
    /\ indexing_l = BasisPadder(mol).indexing_l
    /\ indexing_r = BasisPadder(mol).indexing_r
    /\ spec_partition = NoPartition
    /\ op = "idle" /\ arg = <<>> /\ argAfter = <<>> /\ ret = NoResult /\ prev = NoCall
    /\ basis = <<>> /\ all_angs = <<>> /\ UseMemory = FALSE
    /\ NoWorkflow

\* molecules of ManyAtoms atoms, in which the numeral of an atom index is the
\* end of the numeral of a later one: any first and last atom, hydrogens between
LongMolecules ==
    {[i \in 1..ManyAtoms |-> IF i = 1 THEN first
                              ELSE IF i = ManyAtoms THEN last
                              ELSE [sym |-> "H", shells |-> <<2>>]] : first \in Atoms, last \in Atoms}

\* PySCFProjector.initialize(mol) on the live projector: the padder is built
\* anew for the molecule handed in, spec_agnostic and delta are read again from
\* the basis instructions the projector keeps, spec_partition is not touched
Initialize(m) ==
    /\ spec_agnostic => Uniform(m)
    /\ op' = "initialize"
    /\ arg' = m
    /\ argAfter' = m
    /\ ret' = Ok(<<>>)
    /\ prev' = NoCall
    /\ mol' = m
    /\ sym_cnt' = BasisPadder(m).sym_cnt
    /\ max_l' = BasisPadder(m).max_l
    /\ max_n' = BasisPadder(m).max_n
    /\ indexing_l' = BasisPadder(m).indexing_l
    /\ indexing_r' = BasisPadder(m).indexing_r
    /\ UNCHANGED <<wvars, spec_agnostic, delta, spec_partition, basis, all_angs, UseMemory>>

\* the molecules a projector is initialized with again: its present one with
\* the atoms in reverse order, without its first atom, or with one more atom
\* in front (any atom before a single one, else the atom that keeps the turns)
Rebuilds ==
    {[i \in 1..Len(mol) |-> mol[Len(mol) + 1 - i]]}
    \cup (IF 1 < Len(mol) /\ Len(mol) <= MaxAtoms THEN {Tail(mol)} ELSE {})
    \cup (IF Len(mol) < MaxAtoms
          THEN {<<a>> \o mol : a \in (IF Len(mol) = 1 THEN Atoms ELSE {mol[2]})}
          ELSE {})


\* the caller drops the result of the last call
Discard ==
    /\ op # "idle"
    /\ op' = "idle" /\ arg' = <<>> /\ argAfter' = <<>> /\ ret' = NoResult /\ prev' = NoCall
    /\ UNCHANGED <<wvars, bpvars, spec_agnostic, delta, spec_partition, basis, all_angs, UseMemory>>

\* BasisPadder.pad_basis(coeff)
PadBasis(coeff, fed) ==
    /\ op' = "pad_basis"
    /\ arg' = coeff
    /\ argAfter' = coeff
    /\ ret' = pad_basis(BP, coeff)
    /\ prev' = IF fed THEN ThisCall ELSE NoCall
    /\ UNCHANGED <<wvars, bpvars, spec_agnostic, delta, spec_partition, basis, all_angs, UseMemory>>

\* BasisPadder.unpad_basis(coeff)
UnpadBasis(coeff, fed) ==
    /\ op' = "unpad_basis"
    /\ arg' = coeff
    /\ argAfter' = coeff
    /\ ret' = unpad_basis(BP, coeff)
    /\ prev' = IF fed THEN ThisCall ELSE NoCall
    /\ UNCHANGED <<wvars, bpvars, spec_agnostic, delta, spec_partition, basis, all_angs, UseMemory>>

\* faulty variant of GetBasisJson: adds the one to max_l in place
GetBasisJson_InPlace ==
    /\ op' = "get_basis_json"
    /\ arg' = <<>>
    /\ argAfter' = <<>>
    /\ ret' = Ok(get_basis_json(BP))
    /\ prev' = NoCall
    /\ max_l' = [max_l EXCEPT !.val = [sym \in DOMAIN max_l.val |-> max_l.val[sym] + 1]]
    /\ UNCHANGED <<wvars, mol, sym_cnt, max_n, indexing_l, indexing_r, spec_agnostic, delta,
                   spec_partition, basis, all_angs, UseMemory>>

\* BasisPadder.get_basis_json()
GetBasisJson ==
    /\ op' = "get_basis_json"
    /\ arg' = <<>>
    /\ argAfter' = <<>>
    /\ ret' = Ok(get_basis_json(BP))
    /\ prev' = NoCall
    /\ UNCHANGED <<wvars, bpvars, spec_agnostic, delta, spec_partition, basis, all_angs, UseMemory>>

\* PySCFProjector.get_basis_rep(dm)
GetBasisRep(dm) ==
    /\ op' = "get_basis_rep"
    /\ arg' = dm
    /\ argAfter' = dm
    /\ ret' = get_basis_rep(BP, spec_agnostic, delta, dm)
    /\ spec_partition' = PartitionAfterBasisRep(BP, spec_agnostic, delta, dm, spec_partition)
    /\ prev' = NoCall
    /\ UNCHANGED <<wvars, bpvars, spec_agnostic, delta, basis, all_angs, UseMemory>>

\* PySCFProjector.get_V(dEdC)
GetV(dEdC, fed) ==
    /\ op' = "get_V"
    /\ arg' = dEdC
    /\ argAfter' = ArgAfterGetV(spec_agnostic, spec_partition, dEdC)
    /\ ret' = get_V(BP, spec_agnostic, spec_partition, dEdC)
    /\ prev' = IF fed THEN ThisCall ELSE NoCall
    /\ UNCHANGED <<wvars, bpvars, spec_agnostic, delta, spec_partition, basis, all_angs, UseMemory>>

\* a call takes a fresh argument, or what the call before it returned
Next ==
    \/ op = "idle" /\ \E v \in CoeffVectors(Len(ao_labels(mol))) : PadBasis(v, FALSE)
    \/ op = "unpad_basis" /\ prev.op = "none" /\ ret.err = "none" /\ PadBasis(ret.val, TRUE)
    \/ op = "idle" /\ \E w \in PaddedInputs(BP) : UnpadBasis(w, FALSE)
    \/ op = "pad_basis" /\ prev.op = "none" /\ ret.err = "none" /\ UnpadBasis(ret.val, TRUE)
    \/ /\ op = "unpad_basis" /\ prev.op = "none"
       /\ \E junk \in Junk, nd \in {2, 3} :
             Refill(BP, arg, junk, nd) # arg /\ UnpadBasis(Refill(BP, arg, junk, nd), TRUE)
    \/ op = "idle" /\ GetBasisJson
    \/ op = "idle" /\ \E dm \in DensityMatrices : GetBasisRep(dm)
    \/ /\ op = "idle"
       /\ \E w \in (IF spec_agnostic THEN AgnosticInputs(BP) ELSE PaddedInputs(BP)) : GetV(w, FALSE)
    \/ op = "get_basis_rep" /\ ret.err = "none" /\ GetV(ret.val, TRUE)
    \/ op = "idle" /\ \E m \in Rebuilds : Initialize(m)
    \/ Discard

Spec == Init /\ [][Next]_vars

(***************************************************************************)
(* LSpec: a PySCFProjector on a long molecule, in which the numeral of an  *)
(* atom index is the end of the numeral of a later one ('0' of '10').      *)
(***************************************************************************)
\* PySCFProjector.__init__ / initialize with BasisPadder.__init__
LInit ==
    /\ mol \in LongMolecules
    /\ spec_agnostic \in BOOLEAN
    /\ spec_agnostic => Uniform(mol)
    /\ delta \in BOOLEAN
    /\ sym_cnt = BasisPadder(mol).sym_cnt
    /\ max_l = BasisPadder(mol).max_l
    /\ max_n = BasisPadder(mol).max_n
    /\ indexing_l = BasisPadder(mol).indexing_l
    /\ indexing_r = BasisPadder(mol).indexing_r
    /\ spec_partition = NoPartition
    /\ op = "idle" /\ arg = <<>> /\ argAfter = <<>> /\ ret = NoResult /\ prev = NoCall
    /\ basis = <<>> /\ all_angs = <<>> /\ UseMemory = FALSE
    /\ NoWorkflow

LSpec == LInit /\ [][Next]_vars

\* GaussianProjector.__init__
GInit ==
    /\ basis \in BasisChoices
    /\ UseMemory \in BOOLEAN
    /\ all_angs = <<>>
    /\ mol = <<>> /\ sym_cnt = <<>> /\ max_l = <<>> /\ max_n = <<>>
    /\ indexing_l = <<>> /\ indexing_r = <<>>
    /\ spec_agnostic = FALSE /\ delta = FALSE /\ spec_partition = NoPartition
    /\ op = "idle" /\ arg = <<>> /\ argAfter = <<>> /\ ret = NoResult /\ prev = NoCall
    /\ NoWorkflow

\* GaussianProjector.get_basis_rep(rho, positions, species)
GaussGetBasisRep(rho, positions, species) ==
    /\ op' = "get_basis_rep"
    /\ arg' = [rho |-> rho, positions |-> positions, species |-> species]
    /\ argAfter' = [rho |-> rho, positions |-> positions, species |-> species]
    /\ \E run \in {GaussRun(basis, UseMemory, all_angs, rho, positions, species)} :
          /\ ret' = [err |-> run.err, val |-> run.val]
          /\ all_angs' = run.cache
    /\ prev' = NoCall
    /\ UNCHANGED <<wvars, bpvars, spec_agnostic, delta, spec_partition, basis, UseMemory>>

\* get_basis_rep called a second time with the arguments of the call before
GaussRepeat ==
    /\ op = "get_basis_rep"
    /\ prev.op = "none"
    /\ \E run \in {GaussRun(basis, UseMemory, all_angs, arg.rho, arg.positions, arg.species)} :
          /\ ret' = [err |-> run.err, val |-> run.val]
          /\ all_angs' = run.cache
    /\ prev' = ThisCall
    /\ UNCHANGED <<wvars, bpvars, spec_agnostic, delta, spec_partition, basis, UseMemory, op, arg, argAfter>>

\* some atom of the call is memoized in all_angs already
MeetsCache(positions, species) ==
    \E i \in 1..(IF Len(positions) < Len(species) THEN Len(positions) ELSE Len(species)) :
        CacheKey(species[i], positions[i]) \in DOMAIN all_angs

\* calls on an instance that has memoized nothing yet, and calls that meet an
\* atom memoized before; species is as long as positions or one off
GNext ==
    \/ /\ op = "idle"
       /\ Cardinality(DOMAIN all_angs) <= MaxCached
       /\ \E rho \in Densities, positions \in PositionLists, species \in SpeciesLists :
             /\ Len(positions) <= Len(species) + 1
             /\ Len(species) <= Len(positions) + 1
             /\ all_angs = <<>> \/ MeetsCache(positions, species)
             /\ GaussGetBasisRep(rho, positions, species)
    \/ GaussRepeat
    \/ Discard

GSpec == GInit /\ [][GNext]_vars

(***************************************************************************)
(* RSpec: the radial functions g and radials, called on their own.         *)
(***************************************************************************)
\* the shells g is given: up to MaxPrim primitives with rising exponents and
\* coefficients, and r_o either one number or one number per primitive
RadialShells ==
    UNION { UNION { { [alpha |-> [i \in 1..n |-> a0 + i - 1],
                       coeff |-> [i \in 1..n |-> c0 + i - 1],
                       r_o |-> ro] :
                         ro \in {<<Scale * cut>> : cut \in 1..MaxCut}
                                 \cup {[i \in 1..n |-> CutoffOf(a0 + i - 1, 0) + c0]} } :
                      a0 \in 1..MaxAlpha, c0 \in 1..2 } : n \in 0..MaxPrim }

\* the groups radials is given: those parse_basis builds, a group of no shell
\* and a group of one shell of no primitive
RadialGroups ==
    UNION { {parse_basis(a.shells)[gi] : gi \in 1..Len(parse_basis(a.shells))} : a \in Atoms }
    \cup { [l |-> 0, alpha |-> <<>>, r_o |-> <<>>, coeff |-> <<>>],
           [l |-> 1, alpha |-> << <<>> >>, r_o |-> << <<2 * Scale>> >>, coeff |-> << <<>> >>] }

RadialBases ==
    {[kind |-> "list", groups |-> <<>>]}
    \cup {[kind |-> k, groups |-> <<b>>] : k \in {"list", "dict"}, b \in RadialGroups}

\* nothing constructed: g and radials are class methods
RInit ==
    /\ basis = <<>> /\ UseMemory = FALSE /\ all_angs = <<>>
    /\ mol = <<>> /\ sym_cnt = <<>> /\ max_l = <<>> /\ max_n = <<>>
    /\ indexing_l = <<>> /\ indexing_r = <<>>
    /\ spec_agnostic = FALSE /\ delta = FALSE /\ spec_partition = NoPartition
    /\ op = "idle" /\ arg = <<>> /\ argAfter = <<>> /\ ret = NoResult /\ prev = NoCall
    /\ NoWorkflow

\* GaussianProjector.g(r, r_o, alpha, l, coeff)
EvalG(r, sh, l) ==
    /\ op' = "g"
    /\ arg' = [r |-> r, r_o |-> sh.r_o, alpha |-> sh.alpha, l |-> l, coeff |-> sh.coeff]
    /\ argAfter' = arg'
    /\ ret' = g_call(r, sh.r_o, sh.alpha, l, sh.coeff)
    /\ prev' = NoCall
    /\ UNCHANGED <<wvars, bpvars, spec_agnostic, delta, spec_partition, basis, all_angs, UseMemory>>

\* GaussianProjector.radials(r, basis)
EvalRadials(r, rb) ==
    /\ op' = "radials"
    /\ arg' = [r |-> r, basis |-> rb]
    /\ argAfter' = arg'
    /\ ret' = radials_call(r, rb)
    /\ prev' = NoCall
    /\ UNCHANGED <<wvars, bpvars, spec_agnostic, delta, spec_partition, basis, all_angs, UseMemory>>

RNext ==
    \/ /\ op = "idle"
       /\ \E r \in 0..MaxRadius, sh \in RadialShells, l \in 0..GammaLen : EvalG(r, sh, l)
    \/ /\ op = "idle"
       /\ \E r \in 0..MaxRadius, rb \in RadialBases : EvalRadials(r, rb)
    \/ Discard

RSpec == RInit /\ [][RNext]_vars

(***************************************************************************)
(* neuralxc/drivers.py workflow_driver: iteration 0, then the loop         *)
(* "for iteration in range(1, args.maxit + 1)" with its two breaks.  A step *)
(* ends where workflow_driver waits for the engine, at a test, or returns. *)
(* The drivers it calls are seen by what workflow_driver uses of them:     *)
(* eval_driver and fit_driver return statistics with an 'mae', convert_tf  *)
(* and merge_driver write the directory merged_new into the working        *)
(* directory.  The run starts in an empty directory.                       *)
(***************************************************************************)
Maes == 0..MaxMae

WorkflowArgs == [maxit : 0..MaxIt, tol : 0..MaxTol, data : BOOLEAN]

\* os.chdir('it{k}') from directory c
chdir(c, k) == Append(c, k)

\* os.chdir('../') from directory c; above the starting directory the path grows by -1
chdir_up(c) ==
    IF c = <<>> \/ c[Len(c)] = 0 - 1 THEN Append(c, 0 - 1) ELSE SubSeq(c, 1, Len(c) - 1)

\* the projector variables while workflow_driver runs
NoProjector ==
    /\ basis = <<>> /\ UseMemory = FALSE /\ all_angs = <<>>
    /\ mol = <<>> /\ sym_cnt = <<>> /\ max_l = <<>> /\ max_n = <<>>
    /\ indexing_l = <<>> /\ indexing_r = <<>>
    /\ spec_agnostic = FALSE /\ delta = FALSE /\ spec_partition = NoPartition
    /\ op = "idle" /\ arg = <<>> /\ argAfter = <<>> /\ ret = NoResult /\ prev = NoCall

pvars == <<mol, sym_cnt, max_l, max_n, indexing_l, indexing_r, spec_agnostic,
           delta, spec_partition, op, arg, argAfter, ret, prev, basis, all_angs,
           UseMemory>>

\* workflow_driver(args) is entered in the starting directory
WInit ==
    /\ NoProjector
    /\ args \in WorkflowArgs
    /\ pc = "start" /\ iteration = 0 /\ cwd = <<>>
    /\ statistics_sc = NoStatistics /\ old_statistics = NoStatistics
    /\ statistics_fit = NoStatistics /\ merged_new = {}

\* iteration 0 without args.data, up to the engine: mkdir it0, the copies,
\* chdir('it0'); the engine is a child process that workflow_driver waits for
StartIteration0 ==
    /\ pc = "start"
    /\ ~args.data
    /\ iteration' = 0
    /\ cwd' = chdir(cwd, 0)
    /\ pc' = "engine0"
    /\ UNCHANGED <<pvars, args, statistics_sc, old_statistics, statistics_fit, merged_new>>

\* iteration 0 without args.data, once the engine has ended: pre_driver,
\* add_data_driver, eval_driver, fit_driver, convert_tf(np='merged_new'), chdir('../')
RunIteration0(sc, fit) ==
    /\ pc = "engine0"
    /\ statistics_sc' = [mae |-> sc]
    /\ statistics_fit' = [mae |-> fit]
    /\ merged_new' = merged_new \cup {0}
    /\ cwd' = chdir_up(cwd)
    /\ pc' = "for"
    /\ UNCHANGED <<pvars, args, iteration, old_statistics>>

\* iteration 0 with args.data, which runs no engine: mkdir it0, the copies, chdir,
\* eval_driver, fit_driver, convert_tf(np='merged_new'), chdir('../')
Iteration0(sc, fit) ==
    /\ pc = "start"
    /\ args.data
    /\ iteration' = 0
    /\ statistics_sc' = [mae |-> sc]
    /\ statistics_fit' = [mae |-> fit]
    /\ merged_new' = merged_new \cup {0}
    /\ cwd' = chdir_up(chdir(cwd, 0))
    /\ pc' = "for"
    /\ UNCHANGED <<pvars, args, old_statistics>>

\* the loop head yields the next iteration: mkdir, the copies, copytree of
\* it{iteration-1}/merged_new (FileNotFoundError without it), chdir('it{iteration}');
\* there workflow_driver waits for the engine
StartIteration ==
    /\ pc = "for"
    /\ iteration < args.maxit
    /\ iteration' = iteration + 1
    /\ IF iteration \in merged_new
         THEN /\ cwd' = chdir(cwd, iteration + 1)
              /\ pc' = "eval"
         ELSE /\ cwd' = cwd
              /\ pc' = "FileNotFoundError"
    /\ UNCHANGED <<pvars, args, statistics_sc, old_statistics, statistics_fit, merged_new>>

\* range(1, args.maxit + 1) is exhausted: workflow_driver returns
EndLoop ==
    /\ pc = "for"
    /\ iteration >= args.maxit
    /\ pc' = "done"
    /\ UNCHANGED <<pvars, args, iteration, cwd, statistics_sc, old_statistics,
                   statistics_fit, merged_new>>

\* engine run, pre_driver, old_statistics = dict(statistics_sc), eval_driver and the
\* convergence test
EvalIteration(sc) ==
    /\ pc = "eval"
    /\ old_statistics' = statistics_sc
    /\ statistics_sc' = [mae |-> sc]
    /\ IF statistics_sc.mae - sc < args.tol
         THEN /\ cwd' = chdir_up(cwd)
              /\ pc' = "done"
         ELSE /\ cwd' = cwd
              /\ pc' = "fit"
    /\ UNCHANGED <<pvars, args, iteration, statistics_fit, merged_new>>

\* chain_driver, fit_driver and the test of the fit error, without its break
FitIteration_NoBreak(fit) ==
    /\ pc = "fit"
    /\ statistics_fit' = [mae |-> fit]
    /\ cwd' = cwd
    /\ pc' = "merge"
    /\ UNCHANGED <<pvars, args, iteration, statistics_sc, old_statistics, merged_new>>

\* chain_driver, fit_driver and the test of the fit error
FitIteration(fit) ==
    /\ pc = "fit"
    /\ statistics_fit' = [mae |-> fit]
    /\ IF fit > statistics_sc.mae + args.tol
         THEN /\ cwd' = chdir_up(cwd)
              /\ pc' = "done"
         ELSE /\ cwd' = cwd
              /\ pc' = "merge"
    /\ UNCHANGED <<pvars, args, iteration, statistics_sc, old_statistics, merged_new>>

\* merge_driver(merged='merged_new') and chdir('../'): the normal end of an iteration
MergeIteration ==
    /\ pc = "merge"
    /\ merged_new' = merged_new \cup {iteration}
    /\ cwd' = chdir_up(cwd)
    /\ pc' = "for"
    /\ UNCHANGED <<pvars, args, iteration, statistics_sc, old_statistics, statistics_fit>>

WNext ==
    \/ \E sc \in Maes, fit \in Maes : Iteration0(sc, fit)
    \/ StartIteration0
    \/ \E sc \in Maes, fit \in Maes : RunIteration0(sc, fit)
    \/ StartIteration
    \/ EndLoop
    \/ \E sc \in Maes : EvalIteration(sc)
    \/ \E fit \in Maes : FitIteration(fit)
    \/ MergeIteration

WSpec == WInit /\ [][WNext]_vars

(***************************************************************************)
(* The properties.  Each is stated of the specification named with it.     *)
(***************************************************************************)
\* number of TRUE entries among the first j entries of a mask
CountTrue(mask, j) == Cardinality({i \in 1..j : mask[i]})

\* the atoms of a species in molecule order (0-based), read off the molecule
AtomsOf(sym) == SelectSeq([a \in 1..Len(mol) |-> a - 1], LAMBDA ia : mol[ia + 1].sym = sym)

\* the padded width that the largest n and l among the labels of a species give
WidthOf(labels, sym) ==
    LET of == {i \in 1..Len(labels) : labels[i].sym = sym}
        mn == Max({labels[i].n : i \in of})
        ml == Max({labels[i].l : i \in of})
    IN  mn * (ml + 1) * (ml + 1)

\* the padded slots <<sym, k, j>> of the padder
Slots ==
    UNION { UNION { {<<sym, k, j>> : j \in 1..Len(indexing_l.val[sym][k])} :
                        k \in 1..Len(indexing_l.val[sym]) } :
                sym \in KeySet(indexing_l) }

Populated(s) == indexing_l.val[s[1]][s[2]][s[3]]

At(w, s) == Rows(w.val[s[1]])[s[2]][s[3]]

\* an array per species, one row per atom of the species, one entry per slot
SameShape(w) ==
    /\ KeySet(w) = KeySet(indexing_l)
    /\ \A sym \in KeySet(indexing_l) :
          /\ Len(Rows(w.val[sym])) = Len(indexing_l.val[sym])
          /\ \A k \in 1..Len(indexing_l.val[sym]) :
                Len(Rows(w.val[sym])[k]) = Len(indexing_l.val[sym][k])

\* C1: padding round trip.  Padding a flat vector that has one value per AO
\* label succeeds, and unpadding what pad_basis returned gives the vector
\* back: the same length and the same value at every flat position.
C1_RoundTrip ==
    /\ op = "pad_basis" => ret.err = "none"
    /\ (op = "unpad_basis" /\ prev.op = "pad_basis") =>
          /\ ret.err = "none"
          /\ Len(ret.val) = Len(prev.arg)
          /\ \A i \in 1..Len(prev.arg) : ret.val[i] = prev.arg[i]

\* a round trip of a vector of differing values through a padder of two
\* atoms that has unpopulated slots
C1_Witness ==
    /\ op = "unpad_basis" /\ prev.op = "pad_basis"
    /\ Len(mol) = 2
    /\ \E i, j \in 1..Len(prev.arg) : prev.arg[i] # prev.arg[j]
    /\ \E s \in Slots : ~Populated(s)

\* C2: pad_basis(flat_coeffs) returns, for every species and every atom of
\* it, a row whose i-th populated slot (the i-th True of indexing_l) holds
\* flat_coeffs[indexing_r[i]] and whose unpopulated slots hold zero.
C2_PadScatter ==
    (op = "pad_basis" /\ ret.err = "none") =>
        /\ SameShape(ret.val)
        /\ \A s \in Slots :
              At(ret.val, s) =
                  IF Populated(s)
                  THEN arg[indexing_r.val[s[1]][s[2]][CountTrue(indexing_l.val[s[1]][s[2]], s[3])] + 1]
                  ELSE 0

\* a padded result with an unpopulated slot, and a populated slot that is
\* not the first of its row and holds a value other than zero
C2_Witness ==
    /\ op = "pad_basis" /\ ret.err = "none"
    /\ \E s \in Slots : ~Populated(s)
    /\ \E s \in Slots : Populated(s) /\ s[3] > 1 /\ At(ret.val, s) # 0

\* C3: reverse round trip.  For a padded input w, pad_basis(unpad_basis(w))
\* holds the value of w at every populated slot and zero at every
\* unpopulated slot, whatever w held there.
C3_ReverseRoundTrip ==
    (op = "pad_basis" /\ prev.op = "unpad_basis") =>
        /\ ret.err = "none"
        /\ SameShape(ret.val)
        /\ \A s \in Slots :
              At(ret.val, s) = IF Populated(s) THEN At(prev.arg, s) ELSE 0

\* the input held something other than zero in an unpopulated slot
C3_Witness ==
    /\ op = "pad_basis" /\ prev.op = "unpad_basis"
    /\ \E s \in Slots : ~Populated(s) /\ At(prev.arg, s) # 0
    /\ \E s \in Slots : Populated(s) /\ At(prev.arg, s) # 0

\* C4: unpad_basis reads no unpopulated slot.  Two padded inputs that agree
\* on every populated slot unpad to the same vector, and what unpad_basis
\* returns has one entry per AO label.
C4_UnpadIgnoresUnpopulated ==
    /\ op = "unpad_basis" => (ret.err = "none" /\ Len(ret.val) = Len(ao_labels(mol)))
    /\ (op = "unpad_basis" /\ prev.op = "unpad_basis" /\ AgreeOnPopulated(BP, arg, prev.arg)) =>
          ret = prev.ret

\* two inputs unpadded one after the other that agree on the populated
\* slots and differ on an unpopulated one
C4_Witness ==
    /\ op = "unpad_basis" /\ prev.op = "unpad_basis"
    /\ AgreeOnPopulated(BP, arg, prev.arg)
    /\ \E s \in Slots : ~Populated(s) /\ At(arg, s) # At(prev.arg, s)
    /\ \E i \in 1..Len(ret.val) : ret.val[i] # 0

\* C5: for every species the array pad_basis returns has one row per atom of
\* the species and max_n * (max_l+1)^2 columns, the maxima taken over the AO
\* labels of that species; every mask of indexing_l has that length.
C5_PaddedShape ==
    LET labels == ao_labels(mol)
    IN  /\ \A sym \in KeySet(indexing_l) :
              /\ Len(indexing_l.val[sym]) = Len(AtomsOf(sym))
              /\ \A k \in 1..Len(indexing_l.val[sym]) :
                    Len(indexing_l.val[sym][k]) = WidthOf(labels, sym)
        /\ op = "pad_basis" =>
              /\ ret.err = "none"
              /\ KeySet(ret.val) = {mol[a].sym : a \in 1..Len(mol)}
              /\ \A sym \in KeySet(ret.val) :
                    /\ Len(Rows(ret.val.val[sym])) = Len(AtomsOf(sym))
                    /\ \A k \in 1..Len(Rows(ret.val.val[sym])) :
                          Len(Rows(ret.val.val[sym])[k]) = WidthOf(labels, sym)

\* two species whose largest n and l differ get arrays of different widths
C5_Witness ==
    /\ op = "pad_basis" /\ ret.err = "none"
    /\ \E s1, s2 \in KeySet(ret.val) :
          Len(Rows(ret.val.val[s1])[1]) # Len(Rows(ret.val.val[s2])[1])

\* the labels of atom ia with species sym and quantum numbers n, l
LabelsAt(labels, ia, sym, n, l) ==
    {i \in 1..Len(labels) :
        labels[i].ia = ia /\ labels[i].sym = sym /\ labels[i].n = n /\ labels[i].l = l}

\* C6: construction of the index map.  For every atom and every (n, l) with
\* 1 <= n <= max_n and 0 <= l <= max_l, the 2l+1 mask entries from offset
\* (n-1)*(max_l+1)^2 + l^2 are all True exactly when a label matches the
\* atom, species, n and l; then indexing_r holds there, in n-major l-minor
\* order, the 2l+1 consecutive flat positions from the first matching label.
\* The number of True entries of a mask is the length of its indexing_r.
C6_IndexMap ==
    LET labels == ao_labels(mol)
    IN  \A sym \in KeySet(indexing_l) :
            /\ Len(indexing_l.val[sym]) = Len(AtomsOf(sym))
            /\ \A k \in 1..Len(indexing_l.val[sym]) :
                  LET mask == indexing_l.val[sym][k]
                      right == indexing_r.val[sym][k]
                      ml == max_l.val[sym]
                  IN  /\ Len(mask) = max_n.val[sym] * (ml + 1) * (ml + 1)
                      /\ CountTrue(mask, Len(mask)) = Len(right)
                      /\ \A n \in 1..max_n.val[sym], l \in 0..ml :
                            LET off == (n - 1) * (ml + 1) * (ml + 1) + l * l
                                found == LabelsAt(labels, AtomsOf(sym)[k], sym, n, l)
                                first == Min(found) - 1
                                before == CountTrue(mask, off)
                            IN  /\ \A m \in 1..(2 * l + 1) : mask[off + m] = (found # {})
                                /\ found # {} =>
                                      \A m \in 1..(2 * l + 1) : right[before + m] = first + (m - 1)

\* an atom with a populated block of l = 2 behind unpopulated blocks
C6_Witness ==
    \E sym \in KeySet(indexing_l) : \E k \in 1..Len(indexing_l.val[sym]) :
        /\ max_l.val[sym] = 2
        /\ LabelsAt(ao_labels(mol), AtomsOf(sym)[k], sym, 3, 2) # {}
        /\ LabelsAt(ao_labels(mol), AtomsOf(sym)[k], sym, 1, 0) = {}
        /\ \E k2 \in 1..Len(indexing_l.val[sym]) :
              LabelsAt(ao_labels(mol), AtomsOf(sym)[k2], sym, 2, 1) # {}

\* C7: species partition integrity in species-agnostic mode.  When get_V
\* is handed the 'X' array that get_basis_rep returned, the piece it cuts
\* out for each species at the recorded boundaries is the padded array of
\* that species that went into the concatenation.
C7_PartitionIntegrity ==
    (op = "get_V" /\ prev.op = "get_basis_rep" /\ spec_agnostic) =>
        LET padded == pad_basis(BP, BasisRepCoeff(mol, delta, prev.arg))
        IN  /\ KeySet(argAfter) = KeySet(padded.val)
            /\ \A sym \in KeySet(padded.val) :
                  Rows(argAfter.val[sym]) = Rows(padded.val.val[sym])

\* C8: the index map is immutable.  After any calls of pad_basis,
\* unpad_basis, get_basis_json, get_basis_rep and get_V, the fields sym_cnt,
\* max_l, max_n, indexing_l and indexing_r are what __init__ made of the
\* molecule.
C8_IndexMapImmutable ==
    /\ sym_cnt = InitSymCnt(mol)
    /\ max_l = InitMaxL(ao_labels(mol))
    /\ max_n = InitMaxN(ao_labels(mol))
    /\ indexing_l = InitIndexingLeft(mol)
    /\ indexing_r = InitIndexingRight(mol)

\* get_V has run on what get_basis_rep returned, on a projector whose
\* get_basis_rep has left its mark on the other state
C8_Witness ==
    /\ op = "get_V" /\ prev.op = "get_basis_rep"
    /\ spec_partition.set
    /\ Len(mol) = 2

\* C9: every projection or padding call leaves its arguments as the caller
\* passed them (the dEdC mapping of get_V too) and leaves the state of the
\* instance as construction left it.
C9_CallsArePure ==
    /\ op # "idle" => argAfter = arg
    /\ spec_partition = NoPartition

\* the rows of a projection call's arguments with species s, in input order
InputAtomsOf(a, s) == SelectSeq([i \in 1..Len(a.species) |-> i], LAMBDA i : a.species[i] = s)

\* C10: GaussianProjector.get_basis_rep returns one array per species of the
\* input; its row k is the projection of the k-th input atom of that species
\* and it has as many rows as the input has atoms of the species.
C10_RowOrder ==
    (op = "get_basis_rep" /\ ret.err = "none" /\ Len(arg.positions) = Len(arg.species)) =>
        /\ KeySet(ret.val) = {arg.species[i] : i \in 1..Len(arg.species)}
        /\ \A s \in KeySet(ret.val) :
              LET idx == InputAtomsOf(arg, s)
                  rows == Rows(ret.val.val[s])
              IN  /\ Len(rows) = Len(idx)
                  /\ \A k \in 1..Len(idx) :
                        rows[k] = project(arg.rho, arg.positions[idx[k]], basis[s]).val[1]

\* two atoms of one species with an atom of the other between them, at
\* positions that give them different rows
C10_Witness ==
    /\ op = "get_basis_rep" /\ ret.err = "none"
    /\ Len(arg.positions) = 3 /\ Len(arg.species) = 3
    /\ arg.species[1] = arg.species[3] /\ arg.species[2] # arg.species[1]
    /\ Rows(ret.val.val[arg.species[1]])[1] # Rows(ret.val.val[arg.species[1]])[2]

\* the atoms of each species in a projection call and the rows returned for it
ZippedEqual == Len(arg.positions) = Len(arg.species)

\* largest l and n among the shells of a species, the width they pad to and
\* the number of basis functions the shells hold
ShellLs(shells) == {l \in 0..(Len(shells) - 1) : shells[l + 1] > 0}

ShellMaxL(shells) == Max(ShellLs(shells))

ShellMaxN(shells) == Max({l + shells[l + 1] : l \in ShellLs(shells)})

ShellWidth(shells) == ShellMaxN(shells) * (ShellMaxL(shells) + 1) * (ShellMaxL(shells) + 1)

TotalFunctions(shells) == SumSeq([l1 \in 1..Len(shells) |-> shells[l1] * (2 * (l1 - 1) + 1)])

\* C11: the array GaussianProjector.get_basis_rep returns for a
\* species has one row per atom of the species and one column per basis
\* function, the sum over the shells of 2l+1, and no zero-filled column more.
C11_FlatShape ==
    (op = "get_basis_rep" /\ ret.err = "none" /\ ZippedEqual) =>
        \A s \in KeySet(ret.val) :
            /\ Len(Rows(ret.val.val[s])) = Len(InputAtomsOf(arg, s))
            /\ \A k \in 1..Len(Rows(ret.val.val[s])) :
                  Len(Rows(ret.val.val[s])[k]) = TotalFunctions(basis[s])

\* C12: what GaussianProjector.get_basis_rep returns does not depend on the
\* memory flag or on what all_angs held when the call began: it is what the
\* instance with the flag the other way and nothing memoized returns, and the
\* same call made a second time returns what the first returned.
C12_CacheNotNeeded ==
    op = "get_basis_rep" =>
        /\ \E run \in {GaussRun(basis, ~UseMemory, <<>>, arg.rho, arg.positions, arg.species)} :
              ret = [err |-> run.err, val |-> run.val]
        /\ prev.op = "get_basis_rep" => ret = prev.ret

\* a second call on an instance that memoizes, every atom of it memoized by
\* the first, returning rows that are not all zero
C12_Witness ==
    /\ op = "get_basis_rep" /\ prev.op = "get_basis_rep" /\ ret.err = "none"
    /\ UseMemory
    /\ Len(arg.positions) = 2 /\ Len(arg.species) = 2
    /\ \A i \in 1..2 : CacheKey(arg.species[i], arg.positions[i]) \in DOMAIN all_angs
    /\ \E s \in KeySet(ret.val) : \E j \in 1..ShellWidth(basis[s]) : Rows(ret.val.val[s])[1][j] # 0

\* C13: GaussianProjector.get_basis_rep raises when positions and species
\* differ in length; it returns no result computed from a prefix of the
\* longer one.
C13_LengthMismatchRaises ==
    (op = "get_basis_rep" /\ Len(arg.positions) # Len(arg.species)) => ret.err # "none"

\* C14: a BasisPadder is constructed only from a label list that is complete:
\* an (n, l) with n <= max_n and l <= max_l that has labels on one atom of a
\* species has labels on every atom of the species; for a list that lacks one
\* construction fails and leaves no index map with the slots unpopulated.
C14_MissingShellFails ==
    LET labels == ao_labels(mol)
    IN  \A sym \in KeySet(indexing_l) :
            \A k1, k2 \in 1..Len(AtomsOf(sym)) :
                \A n \in 1..max_n.val[sym] : \A l \in 0..max_l.val[sym] :
                    LabelsAt(labels, AtomsOf(sym)[k1], sym, n, l) # {} =>
                        LabelsAt(labels, AtomsOf(sym)[k2], sym, n, l) # {}

\* the atoms of a projection call that are paired with a species, and the row
\* of the array of its species that belongs to the i-th of them
Zipped == 1..(IF Len(arg.positions) < Len(arg.species) THEN Len(arg.positions) ELSE Len(arg.species))

RowOfAtom(i) == Cardinality({j \in 1..i : arg.species[j] = arg.species[i]})

\* no grid point lies within the largest cutoff of the i-th atom of the call (a
\* point at the cutoff itself has the radial value 0 in every shell)
EmptyWindow(i) ==
    \A p \in GridPoints :
        Scale * Dist(p, arg.positions[i]) >= AtomCutoff(parse_basis(basis[arg.species[i]])).val

\* the shells of a species have a largest cutoff: np.max of line 98 returns
HasCutoff(shells) == AtomCutoff(parse_basis(shells)).err = "none"

\* C15: an atom whose window holds no grid point is valid input.  A call all
\* of whose atoms have a configured species whose shells have a largest cutoff
\* completes without error, and the row of every atom with an empty window is
\* all zeros.
C15_EmptyWindowZero ==
    (op = "get_basis_rep" /\ \A i \in Zipped : /\ arg.species[i] \in DOMAIN basis
                                               /\ HasCutoff(basis[arg.species[i]])) =>
        /\ ret.err = "none"
        /\ \A i \in Zipped :
              EmptyWindow(i) =>
                  LET row == Rows(ret.val.val[arg.species[i]])[RowOfAtom(i)]
                  IN  \A j \in 1..Len(row) : row[j] = 0

\* an atom with an empty window after an atom of the same species whose row is
\* not all zero
C15_Witness ==
    /\ op = "get_basis_rep" /\ ret.err = "none" /\ ZippedEqual
    /\ Len(arg.species) = 2 /\ arg.species[1] = arg.species[2]
    /\ ~EmptyWindow(1) /\ EmptyWindow(2)
    /\ \E j \in 1..ShellWidth(basis[arg.species[1]]) : Rows(ret.val.val[arg.species[1]])[1][j] # 0
    /\ \A j \in 1..ShellWidth(basis[arg.species[1]]) : Rows(ret.val.val[arg.species[1]])[2][j] = 0

\* the slot (1-based) of the basis function (n, l, m) in a padded row of the shells
SlotOf(shells, n, l, m) == (n - 1) * (ShellMaxL(shells) + 1) * (ShellMaxL(shells) + 1) + l * l + m

\* density * angular * radial * volume weight at grid point p, for the c-th
\* radial function and the m-th harmonic of group b of an atom at pos
Integrand(rho, pos, b, c, m, p) ==
    ((rho[p] * angulars_real(b.l, Direction(p, pos))[m]) * radials(Dist(p, pos), b)[c]) * V_cell[p]

\* C16: forward contraction.  For every atom of a call, every shell group,
\* every radial function c of the group and every harmonic m, the coefficient
\* is the sum, over the points of the atom's window within the cutoff of the
\* group, of density * angular[m] * radial[c] * volume weight; the groups
\* follow each other in shell order and a group lists its coefficients radial
\* index major, harmonic index minor, so that the padded row holds the
\* coefficient of (n = l + c, l, m) in the slot of (n, l, m).
C16_Contraction ==
    (op = "get_basis_rep" /\ ret.err = "none") =>
        \A i \in Zipped :
            LET shells == basis[arg.species[i]]
                pos == arg.positions[i]
                bi == parse_basis(shells)
                box == box_around(pos, AtomCutoff(bi).val)
                row == Rows(ret.val.val[arg.species[i]])[RowOfAtom(i)]
            IN  \A gi \in 1..Len(bi) : \A c \in 1..Len(bi[gi].alpha) : \A m \in 1..(2 * bi[gi].l + 1) :
                    row[SlotOf(shells, bi[gi].l + c, bi[gi].l, m)] =
                        SumSeq([k \in 1..Len(box) |->
                            IF Scale * Dist(box[k], pos) <= GroupCutoff(bi[gi]).val
                            THEN Integrand(arg.rho, pos, bi[gi], c, m, box[k]) ELSE 0])

\* an atom with a group of two radial functions and several harmonics whose
\* coefficients differ across the two orders of listing them
C16_Witness ==
    /\ op = "get_basis_rep" /\ ret.err = "none" /\ Len(arg.species) = 1 /\ Len(arg.positions) = 1
    /\ \E b \in {parse_basis(basis[arg.species[1]])[gi] : gi \in 1..Len(parse_basis(basis[arg.species[1]]))} :
          LET shells == basis[arg.species[1]]
              row == Rows(ret.val.val[arg.species[1]])[1]
          IN  /\ Len(b.alpha) = 2 /\ b.l > 0
              /\ row[SlotOf(shells, b.l + 1, b.l, 2)] # 0
              /\ row[SlotOf(shells, b.l + 2, b.l, 1)] # 0
              /\ row[SlotOf(shells, b.l + 1, b.l, 2)] # row[SlotOf(shells, b.l + 2, b.l, 1)]

\* the largest r_o among all primitives of all shells of a parsed basis
MaxShellCutoff(bi) ==
    Max(UNION { UNION { {bi[gi].r_o[c][k] : k \in 1..Len(bi[gi].r_o[c])} :
                            c \in 1..Len(bi[gi].r_o) } : gi \in 1..Len(bi) })

\* the grid points that enter the contraction of some group of the i-th atom
Entering(i) ==
    LET bi == parse_basis(basis[arg.species[i]])
        box == box_around(arg.positions[i], AtomCutoff(bi).val)
    IN  UNION { {GroupWindow(arg.positions[i], bi[gi], box)[k] :
                    k \in 1..Len(GroupWindow(arg.positions[i], bi[gi], box))} : gi \in 1..Len(bi) }

\* C17: window completeness.  The grid points that enter the contraction of
\* an atom (of a species whose shells have a largest cutoff) are the grid
\* points at a distance strictly below the largest cutoff of the atom's
\* shells: each of those and no point at the cutoff or beyond it.  (The test
\* of line 110 is <=: a point of the box at the cutoff exactly enters.)
C17_WindowComplete ==
    op = "get_basis_rep" =>
        \A i \in Zipped :
            (arg.species[i] \in DOMAIN basis /\ HasCutoff(basis[arg.species[i]])) =>
                Entering(i) = {p \in GridPoints :
                                  Scale * Dist(p, arg.positions[i]) <
                                      MaxShellCutoff(parse_basis(basis[arg.species[i]]))}

\* C18: cutoff boundary of g.  For every shell, whatever its l, exponents and
\* coefficients, the value g returns is exactly 0 at every radius r >= r_o
\* (r_o the largest of its cutoffs), and exactly 0 at r = 0 when l > 0.
C18_CutoffBoundary ==
    (op = "g" /\ ret.err = "none") =>
        /\ Scale * arg.r >= SeqMax(arg.r_o) => ret.val = 0
        /\ (arg.r = 0 /\ arg.l > 0) => ret.val = 0

\* a shell of two primitives evaluated beyond its cutoff, at a radius where
\* no factor of the radial function vanishes
C18_Witness ==
    /\ op = "g" /\ ret.err = "none" /\ ret.val = 0
    /\ Len(arg.alpha) = 2 /\ arg.l = 1
    /\ Scale * arg.r > SeqMax(arg.r_o)
    /\ SumPrim(arg.alpha, arg.coeff, arg.r) # 0
    /\ EnvelopeOf(arg.r, SeqMax(arg.r_o)) # 0

\* the number of primitives zip(alpha, coeff) of line 139 runs over
Primitives(a) == 1..(IF Len(a.alpha) < Len(a.coeff) THEN Len(a.alpha) ELSE Len(a.coeff))

\* C19: the value g returns for a contracted shell is r^l * envelope(r) times
\* the sum over its primitives of norm(alpha_i, l) * coeff_i * exp(-alpha_i r^2):
\* each primitive is scaled by its own normalisation before they are summed.
C19_OwnNormalisation ==
    (op = "g" /\ ret.err = "none") =>
        ret.val = IF Scale * arg.r > SeqMax(arg.r_o) THEN 0
                  ELSE (Power(arg.r, arg.l) * EnvelopeOf(arg.r, SeqMax(arg.r_o))) *
                       SumSeq([i \in Primitives(arg) |->
                           (NormOf(arg.alpha[i], arg.l) * arg.coeff[i]) * ExpOf(arg.alpha[i], arg.r)])

\* C20: g and radials signal an error for a shell whose alpha list is empty;
\* they return no value for it.
C20_EmptyAlphaRaises ==
    /\ (op = "g" /\ arg.alpha = <<>>) => ret.err # "none"
    /\ (op = "radials" /\ \E gi \in 1..Len(arg.basis.groups) :
                              \/ arg.basis.groups[gi].alpha = <<>>
                              \/ \E ib \in 1..Len(arg.basis.groups[gi].alpha) :
                                    arg.basis.groups[gi].alpha[ib] = <<>>)
           => ret.err # "none"

\* C21: the index map is a bijection onto the flat ordering, also for a
\* molecule of more than ten atoms and for atoms of one symbol that carry
\* different shells: the indexing_r of every atom holds flat positions of the
\* AO slice of that atom only and none twice, and together they are all the
\* flat positions.
C21_IndexBijection ==
    LET labels == ao_labels(mol)
        Right(sym, k) == indexing_r.val[sym][k]
    IN  /\ \A sym \in KeySet(indexing_r) :
              \A k \in 1..Len(indexing_r.val[sym]) :
                  LET sl == aoslice_by_atom(mol, AtomsOf(sym)[k])
                  IN  /\ \A j \in 1..Len(Right(sym, k)) :
                            sl[1] <= Right(sym, k)[j] /\ Right(sym, k)[j] < sl[2]
                      /\ \A j1, j2 \in 1..Len(Right(sym, k)) :
                            j1 # j2 => Right(sym, k)[j1] # Right(sym, k)[j2]
        /\ UNION { UNION { {Right(sym, k)[j] : j \in 1..Len(Right(sym, k))} :
                              k \in 1..Len(indexing_r.val[sym]) } : sym \in KeySet(indexing_r) }
              = 0..(Len(labels) - 1)

\* the species, row and slot (1-based) that the flat position of the i-th
\* label belongs to: the row counts the atoms of the species in molecule
\* order up to the atom of the label
HomeOf(labels, i) ==
    LET lab == labels[i]
        ml == max_l.val[lab.sym]
    IN  << lab.sym,
           Cardinality({a \in 0..lab.ia : mol[a + 1].sym = lab.sym}),
           (lab.n - 1) * (ml + 1) * (ml + 1) + lab.l * lab.l + lab.m + 1 >>

\* C22: row alignment is stable between construction and use.  pad_basis
\* writes the value of the orbital (atom, n, l, m) into row k, slot (n, l, m)
\* of the array of the species of the atom, k counting the atoms of the
\* species in molecule order, and unpad_basis reads it from there: the same
\* place in every call.
C22_RowAlignment ==
    LET labels == ao_labels(mol)
    IN  /\ op = "pad_basis" =>
              /\ ret.err = "none"
              /\ \A i \in 1..Len(labels) : At(ret.val, HomeOf(labels, i)) = arg[i]
        /\ (op = "unpad_basis" /\ ret.err = "none") =>
              \A i \in 1..Len(labels) : ret.val[i] = At(arg, HomeOf(labels, i))

\* two atoms of one species with different shells, padded from a vector of
\* differing values and unpadded again
C22_Witness ==
    /\ op = "unpad_basis" /\ prev.op = "pad_basis" /\ ret.err = "none"
    /\ Len(mol) = 2 /\ mol[1].sym = mol[2].sym /\ mol[1].shells # mol[2].shells
    /\ \E i, j \in 1..Len(ret.val) : ret.val[i] # ret.val[j]

\* sum over all entries of the product of two mappings of species to arrays
ProductSum(x, y) ==
    SumSeq([i \in 1..Len(x.keys) |->
        SumSeq([k \in 1..Len(Rows(x.val[x.keys[i]])) |->
            SumSeq([j \in 1..Len(Rows(x.val[x.keys[i]])[k]) |->
                Rows(x.val[x.keys[i]])[k][j] * Rows(y.val[x.keys[i]])[k][j]])])])

\* sum of the product of two flat vectors, and of two matrices
Dot(u, v) == SumSeq([i \in 1..Len(u) |-> u[i] * v[i]])

MatrixSum(a, b) == SumSeq([i \in 1..Len(a) |-> Dot(a[i], b[i])])

\* C23: pad_basis and unpad_basis are adjoint.  For every flat vector v and
\* every padded input w, sum(pad_basis(v) * w) = sum(v * unpad_basis(w)); and
\* for the projector with delta off, for every density matrix dm and every
\* gradient g of the shape get_basis_rep returns, get_V(g) returns and
\* sum(get_basis_rep(dm) * g) = sum(dm * get_V(g)).
C23_Adjoint ==
    /\ (op = "pad_basis" /\ ret.err = "none") =>
          \A w \in PaddedInputs(BP) :
              \E u \in {unpad_basis(BP, w)} :
                  u.err = "none" /\ ProductSum(ret.val, w) = Dot(arg, u.val)
    /\ (op = "get_basis_rep" /\ ~delta /\ ret.err = "none") =>
          \A grad \in (IF spec_agnostic THEN AgnosticInputs(BP) ELSE PaddedInputs(BP)) :
              \E V \in {get_V(BP, spec_agnostic, spec_partition, grad)} :
                  V.err = "none" /\ ProductSum(ret.val, grad) = MatrixSum(arg, V.val)

\* the row of the 'X' array that holds the k-th atom of species sym: the
\* species follow each other in the order of the recorded partition
AgnosticRow(sym, k) ==
    SumSeq([i \in 1..Len(spec_partition.keys) |->
        IF i < KeyIndex(spec_partition.keys, sym) THEN spec_partition.val[spec_partition.keys[i]] ELSE 0]) + k

\* C24: call order in species-agnostic mode.  get_V fails with an error while
\* no get_basis_rep has recorded spec_partition on the projector; a get_V
\* that returns has a recorded partition, that of the latest get_basis_rep
\* (nothing else assigns spec_partition), and returns the potential of the
\* pieces that partition cuts from dEdC['X'].
C24_CallOrder ==
    (op = "get_V" /\ spec_agnostic) =>
        /\ ~spec_partition.set => ret.err # "none"
        /\ ret.err = "none" =>
              /\ spec_partition.set
              /\ LET labels == ao_labels(mol)
                 IN  ret.val = ContractV(eri3c(mol),
                         [i \in 1..Len(labels) |->
                             Rows(arg.val["X"])[AgnosticRow(HomeOf(labels, i)[1], HomeOf(labels, i)[2])]
                                               [HomeOf(labels, i)[3]]])

\* a get_V that returns in species-agnostic mode for a molecule of two species
C24_Witness ==
    /\ op = "get_V" /\ spec_agnostic /\ ret.err = "none"
    /\ spec_partition.set
    /\ Len(sym_cnt.keys) = 2
    /\ \E i, j \in 1..Nao : ret.val[i][j] # 0

\* the convergence test of workflow_driver on the statistics held
Converged == old_statistics.mae - statistics_sc.mae < args.tol

\* the test of the fit error of workflow_driver on the statistics held
FitWorse == statistics_fit.mae > statistics_sc.mae + args.tol

\* workflow_driver is inside the body of its loop
InIteration == pc \in {"eval", "fit", "merge"}

\* C25: the loop of workflow_driver runs at most maxit iterations; at the loop head
\* and after the return, whether by the normal end of an iteration, the convergence
\* break or the fit break, the working directory is the starting directory;
\* merge_driver is reached, and an iteration has its merged_new, only if neither
\* break condition fired; the loop head is reached again only from a merged
\* iteration, so every started iteration i >= 1 finds it{i-1}/merged_new and no
\* FileNotFoundError is raised.
C25_WorkflowLoop ==
    /\ pc # "none" => iteration \in 0..args.maxit
    /\ InIteration => iteration >= 1
    /\ pc \in {"for", "done"} => cwd = <<>>
    /\ InIteration => cwd = <<iteration>>
    /\ pc = "engine0" => (cwd = <<0>> /\ merged_new = {})
    /\ pc \in {"fit", "merge"} => ~Converged
    /\ pc = "merge" => ~FitWorse
    /\ (iteration >= 1 /\ iteration \in merged_new) => (~Converged /\ ~FitWorse)
    /\ (pc = "for" /\ iteration >= 1) => iteration \in merged_new
    /\ InIteration => (iteration - 1) \in merged_new
    /\ pc # "FileNotFoundError"

\* the second iteration, started from the merged first one, was left by the fit break
C25_Witness ==
    /\ pc = "done" /\ iteration = 2 /\ cwd = <<>>
    /\ merged_new = {0, 1}
    /\ ~Converged /\ FitWorse

====
